---- MODULE Spec2Model ----
(***************************************************************************)
(* Model of the scheduled virtual-machine snapshot controller              *)
(* (pkg/storage/snapshot/schedule.go, schedule_base.go).                   *)
(*                                                                         *)
(* One VirtualMachineSnapshotSchedule "s1" in namespace "ns1" is           *)
(* reconciled by updateVMSnapshotSchedule.  The API server holds the       *)
(* authoritative Schedule and Snapshot objects; the controller reads the   *)
(* Schedule, the Snapshots and the VMs from informer stores that lag       *)
(* behind the server.  Resync and watch events may enqueue the Schedule    *)
(* at any moment, so a reconcile may run in any state.                     *)
(*                                                                         *)
(* Time is counted in whole seconds; a cron minute is MinuteLen seconds    *)
(* long.  A reconcile runs within the second in which it reads the clock   *)
(* and lists the informer stores as they are when it starts.  A nil        *)
(* status reads as the zero status, which no reconcile ever writes.        *)
(*                                                                         *)
(* Spec is the controller with its environment; SpecRetention applies one  *)
(* retention pass (applyRetentionForVM) to every small store.  SpecPolicy  *)
(* starts the controller on a Schedule that has a status already,          *)
(* SpecSelector on a Schedule with a vmSelector, SpecGap on a Schedule     *)
(* that last fired two cron minutes ago.  SpecQueue runs the workers on    *)
(* the work queue up to the shutdown, and SpecVM is a Schedule whose       *)
(* source VM reaches the VM informer late, with workers that keep running. *)
(* SpecEdit starts on a Schedule whose cron expression was edited after    *)
(* it fired, SpecPartial on a Schedule of two VMs within one cron minute,  *)
(* SpecTargets on Schedules with both, neither or an empty choice of       *)
(* target VMs; SpecCreate runs the create loop                             *)
(* (createScheduledSnapshots) alone on every small input, SpecNames on     *)
(* Schedules and VMs with hyphens in their names, and SpecWriter runs the  *)
(* status writer (updateScheduleStatus) alone.  SpecEvents is the handler  *)
(* of the Snapshot informer's events.  SpecFirst reconciles a new Schedule *)
(* only when the delays its reconciles return have passed; SpecFrame and   *)
(* SpecOrphan start with Snapshots on the server that are not the          *)
(* Schedule's, or that belong to a VM the Schedule no longer targets.      *)
(***************************************************************************)
EXTENDS Integers, Sequences, FiniteSets, TLC

\* ---------------------------------------------------------------- bounds
MaxTime == 3       \* the clock stops at this second
MinuteLen == 2     \* seconds per cron minute (60 in the program)
MaxWatch == 2      \* Schedule watch events the informer may lag behind
MaxFaults == 1     \* reconciles in which the server rejects API calls
Threadiness == 2   \* workers Run starts
NumKeys == 2       \* Schedule keys that may be queued

\* ------------------------------------------------------------- constants
NULL == -1         \* a nil *metav1.Time / nil *int32 / nil *Duration

scheduleNameLabel == "snapshot.kubevirt.io/schedule-name"
scheduleNamespaceLabel == "snapshot.kubevirt.io/schedule-namespace"
scheduledSnapshotLabel == "snapshot.kubevirt.io/scheduled"
snapshotSourceNameLabel == "snapshot.kubevirt.io/source-name"

scheduleCreateSnapshotEvent == "ScheduledSnapshotCreated"
scheduleDeleteSnapshotEvent == "ScheduledSnapshotDeleted"
scheduleRetentionCleanupEvent == "RetentionCleanup"
scheduleFailedEvent == "ScheduledSnapshotFailed"
scheduleInvalidCronEvent == "InvalidCronExpression"
scheduleNoVMsMatchedEvent == "NoVMsMatchedSelector"

ScheduleFailurePolicyContinue == "Continue"
ScheduleFailurePolicyPause == "Pause"
SchedulePhaseActive == "Active"
SchedulePhasePaused == "Paused"
SchedulePhaseFailed == "Failed"

\* --------------------------------------------------------------- helpers
Max(a, b) == IF a >= b THEN a ELSE b

\* The elements of a sequence, as a set.
Range(seq) == {seq[i] : i \in 1..Len(seq)}

\* All orderings of a finite set, as sequences without repetition.
Perms(S) ==
  {p \in [1..Cardinality(S) -> S] : \A i, j \in 1..Cardinality(S) : i # j => p[i] # p[j]}

\* A label map is a function from label keys to values; a missing key reads
\* as "" like a Go map lookup does.
NoLabels == [k \in {} |-> ""]
LabelOf(labels, k) == IF k \in DOMAIN labels THEN labels[k] ELSE ""
MergeLabels(base, over) ==
  [k \in (DOMAIN base) \cup (DOMAIN over) |-> IF k \in DOMAIN over THEN over[k] ELSE base[k]]

\* ------------------------------------------------------------------ cron
\* cron.NewParser(Minute|Hour|Dom|Month|Dow|Descriptor).Parse: the period of
\* the expression in cron minutes, or an error.
cronParse(expr) ==
  CASE expr = "* * * * *" -> [ok |-> TRUE, period |-> 1]
    [] expr = "*/2 * * * *" -> [ok |-> TRUE, period |-> 2]
    [] OTHER -> [ok |-> FALSE, period |-> 0]

\* A mutant of cronNext: an instant counts as its own successor.
cronNext_inclusive(period, t) ==
  ((t + (period * MinuteLen) - 1) \div (period * MinuteLen)) * (period * MinuteLen)

\* cron.Schedule.Next(t): the earliest cron instant strictly after t.  Cron
\* instants fall on second 0 of a matching minute.
cronNext(period, t) == ((t \div (period * MinuteLen)) + 1) * (period * MinuteLen)

\* --------------------------------------------------------------- objects
NoError == [time |-> NULL, message |-> ""]

\* The zero VirtualMachineSnapshotScheduleStatus that line 61-63 installs
\* when the Schedule has no status yet.
EmptyStatus ==
  [phase |-> "", lastSnapshotTime |-> NULL, nextSnapshotTime |-> NULL,
   lastSuccessfulSnapshotName |-> "", currentSnapshotCount |-> 0,
   error |-> NoError, vmSnapshotStatuses |-> {}]

NoSource == [kind |-> "", name |-> ""]
NoRetention == [set |-> FALSE, expires |-> NULL, maxCount |-> NULL]

\* ----------------------------------------------------------------- state
VARIABLES
  clock,          \* wall-clock time in seconds
  apiSchedule,    \* the Schedule object stored by the API server
  cachedSchedule, \* the Schedule object in VMSnapshotScheduleInformer's store
  schedWatch,     \* Schedule versions stored but not yet seen by the informer
  snapshots,      \* the Snapshot objects stored by the API server
  snapshotCache,  \* the Snapshot objects in VMSnapshotInformer's store
  last,           \* what the most recent reconcile or event handler did and returned
  faults,         \* the number of reconciles in which the server rejected a call
  ret,            \* one retention pass over a given store, see SpecRetention
  vmCache,        \* the VM objects in VMInformer's store
  wq              \* the work queue and the workers, see SpecQueue

vars == <<clock, apiSchedule, cachedSchedule, schedWatch, snapshots, snapshotCache, last,
          faults, ret, vmCache, wq>>

\* The VMs of the cluster.
VMStore ==
  {[name |-> "vmA", namespace |-> "ns1", app |-> "db"],
   [name |-> "vmB", namespace |-> "ns1", app |-> "db"],
   [name |-> "vmC", namespace |-> "ns1", app |-> "web"],
   [name |-> "vmA", namespace |-> "ns2", app |-> "db"]}

VMNames == {vm.name : vm \in VMStore}

\* time.Format("20060102-150405") of second t: the minute and the second
\* within the minute, two digits each.
Pad2(n) == IF n < 10 THEN "0" \o ToString(n) ELSE ToString(n)
timestamp(t) == "20240101-00" \o Pad2(t \div MinuteLen) \o Pad2(t % MinuteLen)

\* ------------------------------------------------------ getVMsToSnapshot
\* A mutant of getVMsToSnapshot: a missing source and a missing vmSelector
\* select nothing instead of failing.
getVMsToSnapshot_noValidation(sched) ==
  IF sched.spec.source # NoSource
  THEN IF sched.spec.source.kind # "VirtualMachine"
       THEN [err |-> "source kind must be VirtualMachine", vms |-> {}]
       ELSE IF \E vm \in vmCache :
                 vm.namespace = sched.namespace /\ vm.name = sched.spec.source.name
            THEN [err |-> "", vms |-> {sched.spec.source.name}]
            ELSE [err |-> "VirtualMachine not found", vms |-> {}]
  ELSE [err |-> "",
        vms |-> {vm.name : vm \in {v \in vmCache :
                    /\ sched.spec.vmSelector # ""
                    /\ v.namespace = sched.namespace
                    /\ v.app = sched.spec.vmSelector}}]

\* A mutant of getVMsToSnapshot: a selector that matches no VM is an error.
getVMsToSnapshot_emptyIsError(sched) ==
  IF sched.spec.source # NoSource
  THEN IF sched.spec.source.kind # "VirtualMachine"
       THEN [err |-> "source kind must be VirtualMachine", vms |-> {}]
       ELSE IF \E vm \in vmCache :
                 vm.namespace = sched.namespace /\ vm.name = sched.spec.source.name
            THEN [err |-> "", vms |-> {sched.spec.source.name}]
            ELSE [err |-> "VirtualMachine not found", vms |-> {}]
  ELSE IF sched.spec.vmSelector # ""
       THEN LET vms == {vm.name : vm \in {v \in vmCache :
                          v.namespace = sched.namespace /\ v.app = sched.spec.vmSelector}}
            IN  [err |-> IF vms = {} THEN "no VirtualMachine matched the selector" ELSE "",
                 vms |-> vms]
       ELSE [err |-> "either source or vmSelector must be specified", vms |-> {}]

\* The result of getVMsToSnapshot: the names of the VMs to snapshot, or an
\* error message.
getVMsToSnapshot(sched) ==
  IF sched.spec.source # NoSource
  THEN IF sched.spec.source.kind # "VirtualMachine"
       THEN [err |-> "source kind must be VirtualMachine", vms |-> {}]
       ELSE IF \E vm \in vmCache :
                 vm.namespace = sched.namespace /\ vm.name = sched.spec.source.name
            THEN [err |-> "", vms |-> {sched.spec.source.name}]
            ELSE [err |-> "VirtualMachine not found", vms |-> {}]
  ELSE IF sched.spec.vmSelector # ""
       THEN [err |-> "",
             vms |-> {vm.name : vm \in {v \in vmCache :
                         v.namespace = sched.namespace /\ v.app = sched.spec.vmSelector}}]
       ELSE [err |-> "either source or vmSelector must be specified", vms |-> {}]

\* --------------------------------------------------- createSnapshotForVM
snapshotName(sched, vm, t) == sched.name \o "-" \o vm \o "-" \o timestamp(t)

\* The labels createSnapshotForVM stamps on the Snapshot: the controller's
\* four labels, then every template label written over them.
snapshotLabels(sched, vm) ==
  MergeLabels(
    [k \in {scheduleNameLabel, scheduleNamespaceLabel, scheduledSnapshotLabel,
            snapshotSourceNameLabel} |->
       CASE k = scheduleNameLabel -> sched.name
         [] k = scheduleNamespaceLabel -> sched.namespace
         [] k = scheduledSnapshotLabel -> "true"
         [] OTHER -> vm],
    sched.spec.templateLabels)

\* The VirtualMachineSnapshot object built for vm at second t; the server
\* stamps creationTimestamp.
newSnapshot(sched, vm, t) ==
  [name |-> snapshotName(sched, vm, t),
   namespace |-> sched.namespace,
   labels |-> snapshotLabels(sched, vm),
   owner |-> sched.name,
   source |-> vm,
   creationTimestamp |-> t]

\* A mutant of createScheduledSnapshots: a create answered with
\* AlreadyExists is counted as a create.
createScheduledSnapshots_countsExisting(sched, vms, server, t, createFail) ==
  LET taken(vm) == \E s \in server :
                      s.namespace = sched.namespace /\ s.name = snapshotName(sched, vm, t)
  IN  [failed |-> vms \cap createFail,
       exists |-> {vm \in vms \ createFail : taken(vm)},
       created |-> {newSnapshot(sched, vm, t) : vm \in vms \ createFail}]

\* A mutant of createScheduledSnapshots: the loop stops at the first
\* rejected create.
createScheduledSnapshots_stopsAtFailure(sched, vms, server, t, createFail) ==
  LET taken(vm) == \E s \in server :
                      s.namespace = sched.namespace /\ s.name = snapshotName(sched, vm, t)
  IN  IF vms \cap createFail # {}
      THEN [failed |-> {CHOOSE vm \in vms \cap createFail : TRUE},
            exists |-> {}, created |-> {}]
      ELSE [failed |-> {},
            exists |-> {vm \in vms : taken(vm)},
            created |-> {newSnapshot(sched, vm, t) : vm \in {v \in vms : ~taken(v)}}]

\* Client.VirtualMachineSnapshot(ns).Create for every VM of vms against the
\* server's Snapshot set: failing VMs get an API error, a taken name gets
\* AlreadyExists, anything else is stored.
createScheduledSnapshots(sched, vms, server, t, createFail) ==
  LET taken(vm) == \E s \in server :
                      s.namespace = sched.namespace /\ s.name = snapshotName(sched, vm, t)
  IN  [failed |-> vms \cap createFail,
       exists |-> {vm \in vms \ createFail : taken(vm)},
       created |-> {newSnapshot(sched, vm, t) :
                      vm \in {v \in vms \ createFail : ~taken(v)}}]

\* The error createScheduledSnapshots returns when the creates of the VMs of
\* order failed, in the order the loop met them: one "VM <name>: <error>"
\* per failed VM, joined with "; ".
RECURSIVE joinErrors(_)
joinErrors(order) ==
  IF order = <<>> THEN ""
  ELSE "VM " \o Head(order) \o ": create rejected"
       \o (IF Tail(order) = <<>> THEN "" ELSE "; " \o joinErrors(Tail(order)))

createErrorMessage(order) == "failed to create snapshots: " \o joinErrors(order)

\* ------------------------------------------------------------- retention
\* A mutant of getScheduledSnapshotsForVM: the namespace is not compared.
getScheduledSnapshotsForVM_anyNamespace(sched, vm, store) ==
  {s \in store : /\ LabelOf(s.labels, scheduleNameLabel) = sched.name
                 /\ LabelOf(s.labels, snapshotSourceNameLabel) = vm}

\* getScheduledSnapshotsForVM: the Snapshots of the informer store that
\* carry this Schedule's namespace, its schedule-name label and the VM's
\* source-name label.
getScheduledSnapshotsForVM(sched, vm, store) ==
  {s \in store : /\ s.namespace = sched.namespace
                 /\ LabelOf(s.labels, scheduleNameLabel) = sched.name
                 /\ LabelOf(s.labels, snapshotSourceNameLabel) = vm}

\* sort.Slice with less = CreationTimestamp.Before: every ordering of the
\* listed Snapshots that is ascending in creationTimestamp.  The sort is not
\* stable and the store lists in no fixed order, so Snapshots with equal
\* timestamps may come out in any order.
sortByCreation(snaps) ==
  {p \in Perms(snaps) :
     \A i, j \in 1..Len(p) : i < j => p[i].creationTimestamp <= p[j].creationTimestamp}

\* A mutant of snapshotsToDelete: the count rule keeps one Snapshot too many.
snapshotsToDelete_keepsOneMore(sorted, retention, now) ==
  LET expired == IF retention.expires # NULL
                 THEN SelectSeq(sorted, LAMBDA s : now - s.creationTimestamp > retention.expires)
                 ELSE <<>>
      marked(s) == \E i \in 1..Len(expired) : expired[i].name = s.name
      remaining == SelectSeq(sorted, LAMBDA s : ~marked(s))
      byCount == IF retention.maxCount # NULL /\ Len(remaining) > retention.maxCount + 1
                 THEN SubSeq(remaining, 1, Len(remaining) - retention.maxCount - 1)
                 ELSE <<>>
  IN  expired \o SelectSeq(byCount, LAMBDA s : ~marked(s))

\* A mutant of snapshotsToDelete: a Snapshot expires when its age reaches
\* expires, not when it exceeds it.
snapshotsToDelete_ageInclusive(sorted, retention, now) ==
  LET expired == IF retention.expires # NULL
                 THEN SelectSeq(sorted, LAMBDA s : now - s.creationTimestamp >= retention.expires)
                 ELSE <<>>
      marked(s) == \E i \in 1..Len(expired) : expired[i].name = s.name
      remaining == SelectSeq(sorted, LAMBDA s : ~marked(s))
      byCount == IF retention.maxCount # NULL /\ Len(remaining) > retention.maxCount
                 THEN SubSeq(remaining, 1, Len(remaining) - retention.maxCount)
                 ELSE <<>>
  IN  expired \o SelectSeq(byCount, LAMBDA s : ~marked(s))

\* Lines 304-352 on one sorted list: the Snapshots marked for deletion.
snapshotsToDelete(sorted, retention, now) ==
  LET expired == IF retention.expires # NULL
                 THEN SelectSeq(sorted, LAMBDA s : now - s.creationTimestamp > retention.expires)
                 ELSE <<>>
      marked(s) == \E i \in 1..Len(expired) : expired[i].name = s.name
      remaining == SelectSeq(sorted, LAMBDA s : ~marked(s))
      byCount == IF retention.maxCount # NULL /\ Len(remaining) > retention.maxCount
                 THEN SubSeq(remaining, 1, Len(remaining) - retention.maxCount)
                 ELSE <<>>
  IN  expired \o SelectSeq(byCount, LAMBDA s : ~marked(s))

\* applyRetentionForVM up to the delete calls: every set of Snapshots the
\* function may select for deletion, one per outcome of the sort.
applyRetentionForVM(sched, vm, store, now) ==
  {Range(snapshotsToDelete(sorted, sched.spec.retention, now)) :
     sorted \in sortByCreation(getScheduledSnapshotsForVM(sched, vm, store))}

\* A mutant of countSnapshotsForSchedule: the schedule-name label is not
\* compared.
countSnapshotsForSchedule_anyLabel(sched, store) ==
  Cardinality({s \in store : s.namespace = sched.namespace})

\* countSnapshotsForSchedule over the informer store.
countSnapshotsForSchedule(sched, store) ==
  Cardinality({s \in store : /\ s.namespace = sched.namespace
                             /\ LabelOf(s.labels, scheduleNameLabel) = sched.name})

\* --------------------------------------------------------- status writer
statusEqual(a, b) ==
  /\ a.phase = b.phase
  /\ a.currentSnapshotCount = b.currentSnapshotCount
  /\ a.lastSuccessfulSnapshotName = b.lastSuccessfulSnapshotName
  /\ a.lastSnapshotTime = b.lastSnapshotTime
  /\ a.nextSnapshotTime = b.nextSnapshotTime

\* updateScheduleStatus: "skipped" when the cached status equals the
\* candidate, else the outcome of the JSON patch that replaces /status.
updateScheduleStatus(current, candidate, patchFail) ==
  IF statusEqual(current, candidate) THEN "skipped"
  ELSE IF patchFail THEN "failed" ELSE "patched"

\* The event reasons the controller can record, with how often a reconcile
\* recorded each.
EventReasons ==
  {scheduleCreateSnapshotEvent, scheduleDeleteSnapshotEvent, scheduleRetentionCleanupEvent,
   scheduleFailedEvent, scheduleInvalidCronEvent, scheduleNoVMsMatchedEvent}
NoEvents == [r \in EventReasons |-> 0]
AddEvents(ev, r, n) == [ev EXCEPT ![r] = @ + n]

\* The events createSnapshotForVM records over one createScheduledSnapshots:
\* one ScheduledSnapshotCreated for every Snapshot the server stored.
createEvents(res) ==
  AddEvents(NoEvents, scheduleCreateSnapshotEvent, Cardinality(res.created))

\* The Schedule specs the model is started with: a Schedule of one VM that
\* keeps one Snapshot, the same disabled, the same disabled with a cron
\* expression that does not parse, and the same with a template label that
\* uses the controller's schedule-name key.
BaseSpec ==
  [schedule |-> "* * * * *", disabled |-> FALSE,
   source |-> [kind |-> "VirtualMachine", name |-> "vmA"], vmSelector |-> "",
   retention |-> [set |-> TRUE, expires |-> NULL, maxCount |-> 1],
   failurePolicy |-> "", templateLabels |-> NoLabels]

\* No reconcile has run yet.
NoReconcile ==
  [branch |-> "none", now |-> 0, spec |-> BaseSpec, cached |-> EmptyStatus,
   candidate |-> EmptyStatus,
   vms |-> {}, fired |-> FALSE, createFailed |-> {}, createExists |-> {}, created |-> {},
   store |-> {}, listed |-> {}, selected |-> {}, deleteFailed |-> {},
   write |-> "none", requeueAfter |-> 0, err |-> "", events |-> NoEvents]

ScheduleSpecs ==
  {BaseSpec,
   [BaseSpec EXCEPT !.disabled = TRUE],
   [BaseSpec EXCEPT !.disabled = TRUE, !.schedule = "not a cron"],
   [BaseSpec EXCEPT !.templateLabels = [k \in {scheduleNameLabel} |-> "other"]]}

NewSchedule(sp) == [name |-> "s1", namespace |-> "ns1", spec |-> sp, status |-> EmptyStatus]

\* No retention pass is under study.
NoRet == [store |-> {}, retention |-> NoRetention, now |-> 0, done |-> FALSE, selected |-> {}]

\* The workers Run starts, and the keys the event handlers may add: the key
\* of Schedule s1 and keys of Schedules that are not in the informer store.
Workers == 1..Threadiness
QueueKeys == {"ns1/s" \o ToString(i) : i \in 1..NumKeys}

\* cache.MetaNamespaceKeyFunc.
keyOf(obj) == obj.namespace \o "/" \o obj.name

\* The work queue Init builds and the workers Run has started: no key
\* queued (queue), marked for processing (dirty), held by a worker
\* (processing) or waiting for a delayed add (waiting); no worker holds a
\* key; the stop channel is open.
NoQueue ==
  [queue |-> <<>>, dirty |-> {}, processing |-> {}, waiting |-> {},
   shuttingDown |-> FALSE,
   holding |-> [w \in Workers |-> ""],
   handled |-> [w \in Workers |-> FALSE],
   requeue |-> [w \in Workers |-> FALSE],
   exited |-> {}, stopped |-> FALSE, returned |-> FALSE]

\* The controller right after construction, with a new Schedule sp and every
\* VM of the cluster in the VM informer store.
InitWith(sp) ==
  /\ clock = 0
  /\ apiSchedule = NewSchedule(sp)
  /\ cachedSchedule = apiSchedule
  /\ schedWatch = <<>>
  /\ snapshots = {}
  /\ snapshotCache = {}
  /\ last = NoReconcile
  /\ faults = 0
  /\ vmCache = VMStore
  /\ wq = NoQueue

Init ==
  /\ \E sp \in ScheduleSpecs : InitWith(sp)
  /\ ret = NoRet

\* ------------------------------------------------------------- reconcile
\* A mutant of timeToSnapshot: the Schedule fires only after nextRun has
\* passed, not at nextRun itself.
timeToSnapshot_strict(sched, period, now) ==
  LET nextRun == IF sched.status.lastSnapshotTime # NULL
                 THEN cronNext(period, sched.status.lastSnapshotTime)
                 ELSE cronNext(period, now - 1)
  IN  now > nextRun

\* Lines 89-99: whether this reconcile creates Snapshots.
timeToSnapshot(sched, period, now) ==
  LET nextRun == IF sched.status.lastSnapshotTime # NULL
                 THEN cronNext(period, sched.status.lastSnapshotTime)
                 ELSE cronNext(period, now - 1)
  IN  now >= nextRun

\* A mutant of isDisabled: the pause check is skipped.
isDisabled_never(sched) == FALSE

\* Line 73: the pause check.
isDisabled(sched) == sched.spec.disabled

\* A mutant of errorStatus: the error gets its message but no time.
errorStatus_noTime(status, msg, t) ==
  [status EXCEPT !.phase = SchedulePhaseFailed, !.error.message = msg]

\* The status updateScheduleStatusError builds.
errorStatus(status, msg, t) ==
  [status EXCEPT !.phase = SchedulePhaseFailed, !.error = [time |-> t, message |-> msg]]

\* A mutant of pausedStatus: a Failed Schedule stays Failed.
pausedStatus_keepsFailed(status) ==
  [status EXCEPT !.phase = IF @ = SchedulePhaseFailed THEN @ ELSE SchedulePhasePaused,
                 !.error = NoError]

\* The status updateScheduleStatusPaused builds.
pausedStatus(status) ==
  [status EXCEPT !.phase = SchedulePhasePaused, !.error = NoError]

\* A mutant of activeStatus: the error of an earlier failure is kept.
activeStatus_keepsError(status, period, t, count) ==
  [status EXCEPT !.phase = SchedulePhaseActive,
                 !.nextSnapshotTime =
                    cronNext(period, IF status.lastSnapshotTime # NULL
                                     THEN status.lastSnapshotTime ELSE t),
                 !.currentSnapshotCount = count]

\* The status updateScheduleStatusActive builds at second t with the
\* Snapshot count it took.
activeStatus(status, period, t, count) ==
  [status EXCEPT !.phase = SchedulePhaseActive,
                 !.error = NoError,
                 !.nextSnapshotTime =
                    cronNext(period, IF status.lastSnapshotTime # NULL
                                     THEN status.lastSnapshotTime ELSE t),
                 !.currentSnapshotCount = count]

\* The Schedule watch after the server stored a new version of the Schedule:
\* the informer lags at most MaxWatch events behind, the oldest event is
\* skipped (a relist) when one more arrives.
pushWatch(watch, obj) ==
  IF Len(watch) < MaxWatch THEN Append(watch, obj) ELSE Append(Tail(watch), obj)

\* The end of every reconcile: updateScheduleStatus writes the candidate
\* status, and the handler returns.  errOk and requeueOk are what the
\* handler returns when the status write did not fail, eventsOk the events
\* it records only then.
Conclude(info, candidate, errOk, requeueOk, eventsOk, patchFail, server) ==
  LET outcome == updateScheduleStatus(cachedSchedule.status, candidate, patchFail)
  IN  /\ faults' = faults + (IF \/ info.createFailed # {}
                                    \/ info.deleteFailed # {}
                                    \/ outcome = "failed"
                                 THEN 1 ELSE 0)
      /\ faults' <= MaxFaults
      /\ clock' = clock
      /\ snapshots' = server
      /\ snapshotCache' = snapshotCache
      /\ apiSchedule' = IF outcome = "patched"
                        THEN [apiSchedule EXCEPT !.status = candidate] ELSE apiSchedule
      /\ schedWatch' = IF outcome = "patched"
                       THEN pushWatch(schedWatch, apiSchedule') ELSE schedWatch
      /\ cachedSchedule' = cachedSchedule
      /\ ret' = ret
      /\ vmCache' = vmCache
      /\ last' = [info EXCEPT
                    !.now = clock,
                    !.spec = cachedSchedule.spec,
                    !.cached = cachedSchedule.status,
                    !.store = snapshotCache,
                    !.candidate = candidate,
                    !.write = outcome,
                    !.err = IF outcome = "failed" THEN "status patch failed" ELSE errOk,
                    !.requeueAfter = IF outcome = "failed" THEN 0 ELSE requeueOk,
                    !.events = IF outcome = "failed" THEN info.events
                               ELSE [r \in EventReasons |-> info.events[r] + eventsOk[r]]]

\* A mutant of updateScheduleStatusError: the error is recorded in the
\* status but not returned.
updateScheduleStatusError_returnsNil(info, sched, msg, patchFail, t, server) ==
  Conclude(info, errorStatus(sched.status, msg, t), "", 0,
           AddEvents(NoEvents, scheduleFailedEvent, 1), patchFail, server)

\* updateScheduleStatusError(schedule, err).
updateScheduleStatusError(info, sched, msg, patchFail, t, server) ==
  Conclude(info, errorStatus(sched.status, msg, t), msg, 0,
           AddEvents(NoEvents, scheduleFailedEvent, 1), patchFail, server)

\* updateScheduleStatusPaused(schedule).
updateScheduleStatusPaused(info, sched, patchFail, t) ==
  Conclude(info, pausedStatus(sched.status), "", 0, NoEvents, patchFail, snapshots)

\* A mutant of updateScheduleStatusActive: the requeue delay has no floor of
\* one second.
updateScheduleStatusActive_noFloor(info, sched, period, patchFail, t, server) ==
  LET candidate == activeStatus(sched.status, period, t,
                                countSnapshotsForSchedule(sched, snapshotCache))
  IN  Conclude(info, candidate, "", candidate.nextSnapshotTime - t + 1,
               NoEvents, patchFail, server)

\* updateScheduleStatusActive(schedule, cronSchedule) at second t; the count
\* is taken over the Snapshot informer store.
updateScheduleStatusActive(info, sched, period, patchFail, t, server) ==
  LET candidate == activeStatus(sched.status, period, t,
                                countSnapshotsForSchedule(sched, snapshotCache))
  IN  Conclude(info, candidate, "", Max(candidate.nextSnapshotTime - t + 1, 1),
               NoEvents, patchFail, server)

\* A mutant of afterDelete: a delete removes nothing.
afterDelete_keepsAll(server, deleted) == server

\* The Snapshots of server that a successful delete of the Snapshots in
\* deleted removes: Delete addresses a Snapshot by namespace and name.
afterDelete(server, deleted) ==
  {s \in server : ~\E x \in deleted : x.namespace = s.namespace /\ x.name = s.name}

\* A mutant of applyRetentionPolicy: retention never selects a Snapshot.
applyRetentionPolicy_never(sched, vms, store, now) == {[vm \in vms |-> {}]}

\* applyRetentionPolicy: for each VM one of the selections
\* applyRetentionForVM may make on the listed store; nothing without a
\* retention policy.
applyRetentionPolicy(sched, vms, store, now) ==
  IF ~sched.spec.retention.set THEN {[vm \in vms |-> {}]}
  ELSE {sel \in [vms -> UNION {applyRetentionForVM(sched, vm, store, now) : vm \in vms}] :
          \A vm \in vms : sel[vm] \in applyRetentionForVM(sched, vm, store, now)}

\* updateVMSnapshotSchedule on a deep copy of the cached Schedule.  A
\* reconcile runs within the second in which it reads the clock, and lists
\* the informer stores as they are when it starts.  createFail, deleteFail
\* and patchFail are the API calls the server rejects.
updateVMSnapshotSchedule ==
  LET sched == cachedSchedule
      now == clock
      parsed == cronParse(sched.spec.schedule)
      got == getVMsToSnapshot(sched)
      info == [NoReconcile EXCEPT !.vms = got.vms]
  IN
  \E patchFail \in BOOLEAN :
    IF ~parsed.ok
    THEN updateScheduleStatusError([NoReconcile EXCEPT !.branch = "cron"], sched,
                                   "invalid cron expression", patchFail, now,
                                   snapshots)
    ELSE IF isDisabled(sched)
    THEN updateScheduleStatusPaused([NoReconcile EXCEPT !.branch = "paused"], sched,
                                    patchFail, now)
    ELSE IF got.err # ""
    THEN updateScheduleStatusError([info EXCEPT !.branch = "vms"], sched, got.err,
                                   patchFail, now, snapshots)
    ELSE IF got.vms = {}
    THEN updateScheduleStatusActive(
           [info EXCEPT !.branch = "novms",
                        !.events = AddEvents(NoEvents, scheduleNoVMsMatchedEvent, 1)],
           sched, parsed.period, patchFail, now, snapshots)
    ELSE
      \E createFail \in SUBSET got.vms :
        LET fire == timeToSnapshot(sched, parsed.period, now)
            res == IF fire
                   THEN createScheduledSnapshots(sched, got.vms, snapshots, now, createFail)
                   ELSE [failed |-> {}, exists |-> {}, created |-> {}]
            afterCreate == snapshots \cup res.created
            info2 == [info EXCEPT
                        !.fired = fire,
                        !.createFailed = res.failed,
                        !.createExists = res.exists,
                        !.created = res.created,
                        !.events = createEvents(res)]
        IN
        /\ fire \/ createFail = {}
        /\ IF res.failed # {} /\ sched.spec.failurePolicy = ScheduleFailurePolicyPause
           THEN \E order \in Perms(res.failed) :
                  updateScheduleStatusError([info2 EXCEPT !.branch = "create"], sched,
                                            createErrorMessage(order), patchFail, now,
                                            afterCreate)
           ELSE
             LET sched2 == IF fire
                           THEN [sched EXCEPT !.status.lastSnapshotTime = now] ELSE sched
             IN
             \E sel \in applyRetentionPolicy(sched2, got.vms, snapshotCache, now) :
               LET selected == UNION {sel[vm] : vm \in got.vms}
               IN
               \E deleteFail \in SUBSET selected :
                 LET info3 == [info2 EXCEPT
                                 !.branch = "active",
                                 !.listed = IF sched.spec.retention.set
                                            THEN UNION {getScheduledSnapshotsForVM(
                                                          sched2, vm, snapshotCache) :
                                                        vm \in got.vms}
                                            ELSE {},
                                 !.selected = selected,
                                 !.deleteFailed = deleteFail,
                                 !.events =
                                    AddEvents(
                                      AddEvents(info2.events, scheduleFailedEvent,
                                                IF res.failed # {} THEN 1 ELSE 0),
                                      scheduleDeleteSnapshotEvent,
                                      Cardinality(selected \ deleteFail))]
                 IN
                 updateScheduleStatusActive(info3, sched2, parsed.period, patchFail, now,
                                            afterDelete(afterCreate, selected \ deleteFail))

\* processScheduleWorkItem for the Schedule's key, whenever the key is
\* handed to a worker.
Reconcile ==
  /\ updateVMSnapshotSchedule
  /\ wq' = wq

\* --------------------------------------------------------- environment
\* One second passes.
Tick ==
  /\ clock < MaxTime
  /\ clock' = clock + 1
  /\ UNCHANGED <<apiSchedule, cachedSchedule, schedWatch, snapshots, snapshotCache, last,
               faults, ret, vmCache, wq>>

\* The Schedule informer sees the next version the server stored.
DeliverSchedule ==
  /\ schedWatch # <<>>
  /\ cachedSchedule' = Head(schedWatch)
  /\ schedWatch' = Tail(schedWatch)
  /\ UNCHANGED <<clock, apiSchedule, snapshots, snapshotCache, last, faults, ret, vmCache,
               wq>>

\* The Snapshot informer catches up with the server.
DeliverSnapshots ==
  /\ snapshotCache # snapshots
  /\ snapshotCache' = snapshots
  /\ UNCHANGED <<clock, apiSchedule, cachedSchedule, schedWatch, snapshots, last, faults,
               ret, vmCache, wq>>

Next == Reconcile \/ Tick \/ DeliverSchedule \/ DeliverSnapshots

Spec == Init /\ [][Next]_vars

\* ------------------------------------------------- the queue and workers
\* A mutant of queueAdd: a key that a worker holds is queued all the same.
queueAdd_whileProcessing(q, key) ==
  IF q.shuttingDown \/ key \in q.dirty THEN q
  ELSE [q EXCEPT !.dirty = @ \cup {key}, !.queue = Append(@, key)]

\* scheduleQueue.Add(key): dropped when the queue is shutting down or the
\* key is already marked; a key that a worker holds is marked and queued
\* only when the worker is done with it.
queueAdd(q, key) ==
  IF q.shuttingDown \/ key \in q.dirty THEN q
  ELSE IF key \in q.processing THEN [q EXCEPT !.dirty = @ \cup {key}]
  ELSE [q EXCEPT !.dirty = @ \cup {key}, !.queue = Append(@, key)]

\* An event handler (handleVMSnapshotSchedule, handleVMSnapshotForSchedule)
\* or EnqueueAll adds a key.
Enqueue ==
  /\ \E key \in QueueKeys :
       /\ wq' = queueAdd(wq, key)
       /\ wq' # wq
  /\ UNCHANGED <<clock, apiSchedule, cachedSchedule, schedWatch, snapshots, snapshotCache,
                 last, faults, ret, vmCache>>

\* The timer of a delayed add (AddAfter, AddRateLimited) fires.
DelayedAdd ==
  /\ \E key \in wq.waiting : wq' = queueAdd([wq EXCEPT !.waiting = @ \ {key}], key)
  /\ UNCHANGED <<clock, apiSchedule, cachedSchedule, schedWatch, snapshots, snapshotCache,
                 last, faults, ret, vmCache>>

\* ProcessWorkItem, first part: worker w takes the head of the queue.
WorkerGet(w) ==
  /\ w \notin wq.exited
  /\ wq.holding[w] = ""
  /\ wq.queue # <<>>
  /\ wq' = [wq EXCEPT !.queue = Tail(@),
                      !.processing = @ \cup {Head(wq.queue)},
                      !.dirty = @ \ {Head(wq.queue)},
                      !.holding[w] = Head(wq.queue)]
  /\ UNCHANGED <<clock, apiSchedule, cachedSchedule, schedWatch, snapshots, snapshotCache,
                 last, faults, ret, vmCache>>

\* processScheduleWorkItem's handler on the key worker w holds: a key that
\* is not in the Schedule informer's store returns (0, nil), the key of the
\* Schedule is reconciled by updateVMSnapshotSchedule.
WorkerHandle(w) ==
  /\ wq.holding[w] # ""
  /\ ~wq.handled[w]
  /\ IF wq.holding[w] = keyOf(cachedSchedule)
     THEN /\ updateVMSnapshotSchedule
          /\ wq' = [wq EXCEPT !.handled[w] = TRUE,
                              !.requeue[w] = (last'.err # "" \/ last'.requeueAfter > 0)]
     ELSE /\ wq' = [wq EXCEPT !.handled[w] = TRUE, !.requeue[w] = FALSE]
          /\ UNCHANGED <<clock, apiSchedule, cachedSchedule, schedWatch, snapshots,
                         snapshotCache, last, faults, ret, vmCache>>

\* ProcessWorkItem, last part: the key is added again after the delay the
\* handler returned, or with backoff after an error, and the worker is done
\* with it; a key marked meanwhile is queued now.
WorkerDone(w) ==
  /\ wq.holding[w] # ""
  /\ wq.handled[w]
  /\ LET key == wq.holding[w]
         q1 == IF wq.requeue[w] /\ ~wq.shuttingDown
               THEN [wq EXCEPT !.waiting = @ \cup {key}] ELSE wq
     IN  wq' = [q1 EXCEPT !.processing = @ \ {key},
                         !.queue = IF key \in q1.dirty THEN Append(@, key) ELSE @,
                         !.holding[w] = "",
                         !.handled[w] = FALSE,
                         !.requeue[w] = FALSE]
  /\ UNCHANGED <<clock, apiSchedule, cachedSchedule, schedWatch, snapshots, snapshotCache,
                 last, faults, ret, vmCache>>

\* The stop channel is closed.
Stop ==
  /\ ~wq.stopped
  /\ wq' = [wq EXCEPT !.stopped = TRUE]
  /\ UNCHANGED <<clock, apiSchedule, cachedSchedule, schedWatch, snapshots, snapshotCache,
                 last, faults, ret, vmCache>>

\* A mutant of RunReturn: Run returns without shutting the queue down.
RunReturn_noShutDown ==
  /\ wq.stopped
  /\ ~wq.returned
  /\ wq' = [wq EXCEPT !.returned = TRUE]
  /\ UNCHANGED <<clock, apiSchedule, cachedSchedule, schedWatch, snapshots, snapshotCache,
                 last, faults, ret, vmCache>>

\* Run wakes up from <-stopCh and returns; its deferred ShutDown runs.
RunReturn ==
  /\ wq.stopped
  /\ ~wq.returned
  /\ wq' = [wq EXCEPT !.shuttingDown = TRUE, !.returned = TRUE]
  /\ UNCHANGED <<clock, apiSchedule, cachedSchedule, schedWatch, snapshots, snapshotCache,
                 last, faults, ret, vmCache>>

\* scheduleWorker of worker w ends: the queue is shut down and empty, so
\* ProcessWorkItem returns false, and wait.Until finds the stop channel
\* closed.
WorkerExit(w) ==
  /\ w \notin wq.exited
  /\ wq.holding[w] = ""
  /\ wq.queue = <<>>
  /\ wq.shuttingDown
  /\ wq' = [wq EXCEPT !.exited = @ \cup {w}]
  /\ UNCHANGED <<clock, apiSchedule, cachedSchedule, schedWatch, snapshots, snapshotCache,
                 last, faults, ret, vmCache>>

InitQueue ==
  /\ InitWith(BaseSpec)
  /\ ret = NoRet

NextQueue ==
  \/ Enqueue
  \/ DelayedAdd
  \/ \E w \in Workers : WorkerGet(w)
  \/ \E w \in Workers : WorkerHandle(w)
  \/ \E w \in Workers : WorkerDone(w)
  \/ Stop
  \/ RunReturn
  \/ \E w \in Workers : WorkerExit(w)

SpecQueue == InitQueue /\ [][NextQueue]_vars

\* ------------------------------------------------ a VM that appears late
\* The Schedule informer sees the next version the server stored and calls
\* its update handler, handleVMSnapshotSchedule, which adds the key.
ScheduleEvent ==
  /\ schedWatch # <<>>
  /\ cachedSchedule' = Head(schedWatch)
  /\ schedWatch' = Tail(schedWatch)
  /\ wq' = queueAdd(wq, keyOf(Head(schedWatch)))
  /\ UNCHANGED <<clock, apiSchedule, snapshots, snapshotCache, last, faults, ret, vmCache>>

\* The VM informer sees the VMs that were missing; Init registers no
\* handler on it, so no key is added.
VMAppears ==
  /\ vmCache # VMStore
  /\ vmCache' = VMStore
  /\ UNCHANGED <<clock, apiSchedule, cachedSchedule, schedWatch, snapshots, snapshotCache,
                 last, faults, ret, wq>>

\* The controller starts on a new Schedule whose source VM vmA is not in
\* the VM informer's store; the Schedule's add event has queued its key.
InitVM ==
  /\ clock = 0
  /\ apiSchedule = NewSchedule(BaseSpec)
  /\ cachedSchedule = apiSchedule
  /\ schedWatch = <<>>
  /\ snapshots = {}
  /\ snapshotCache = {}
  /\ last = NoReconcile
  /\ faults = 0
  /\ vmCache = {vm \in VMStore : vm.name # BaseSpec.source.name}
  /\ wq = queueAdd(NoQueue, keyOf(apiSchedule))
  /\ ret = NoRet

NextVM ==
  \/ ScheduleEvent
  \/ VMAppears
  \/ DelayedAdd
  \/ \E w \in Workers : WorkerGet(w)
  \/ \E w \in Workers : WorkerHandle(w)
  \/ \E w \in Workers : WorkerDone(w)

\* The workers run and the timers of delayed adds fire.
SpecVM ==
  /\ InitVM
  /\ [][NextVM]_vars
  /\ WF_vars(DelayedAdd)
  /\ \A w \in Workers :
       WF_vars(WorkerGet(w)) /\ WF_vars(WorkerHandle(w)) /\ WF_vars(WorkerDone(w))

\* ---------------------------------------------- one retention pass alone
RetNames == 3      \* Snapshot names a store may hold
RetStamps == 2     \* creation timestamps run from 0 to RetStamps
RetNow == RetStamps + 1

\* The Schedule and VM the retention pass is for.
RetSchedule(retention) == NewSchedule([BaseSpec EXCEPT !.retention = retention])

\* The Snapshots a store may hold: Snapshots of Schedule s1 and VM vmA, named
\* by the controller; the server's creationTimestamp need not be the second
\* the name was formatted from.
RetSnapshots ==
  {[newSnapshot(NewSchedule(BaseSpec), "vmA", i) EXCEPT !.creationTimestamp = c] :
     i \in 0..(RetNames - 1), c \in 0..RetStamps}

\* Stores hold at most one Snapshot of a name.
RetStores ==
  {st \in SUBSET RetSnapshots : \A a, b \in st : a.name = b.name => a = b}

RetPolicies ==
  {[set |-> TRUE, expires |-> e, maxCount |-> m] : e \in {NULL, 1, 2}, m \in {NULL, 0, 1, 2}}

InitRetention ==
  /\ InitWith(BaseSpec)
  /\ \E st \in RetStores, r \in RetPolicies :
       ret = [store |-> st, retention |-> r, now |-> RetNow, done |-> FALSE, selected |-> {}]

\* applyRetentionForVM on the store: the Snapshots it issues a delete for.
ApplyRetention ==
  /\ ~ret.done
  /\ \E sel \in applyRetentionForVM(RetSchedule(ret.retention), "vmA", ret.store, ret.now) :
       ret' = [ret EXCEPT !.done = TRUE, !.selected = sel]
  /\ UNCHANGED <<clock, apiSchedule, cachedSchedule, schedWatch, snapshots, snapshotCache,
                 last, faults, vmCache, wq>>

NextRetention == ApplyRetention

SpecRetention == InitRetention /\ [][NextRetention]_vars

\* ------------------------------- a controller started on an old Schedule
\* A Schedule of one VM that stops at the first Snapshot create the server
\* rejects, and keeps every Snapshot.
PauseSpec ==
  [BaseSpec EXCEPT !.failurePolicy = ScheduleFailurePolicyPause, !.retention = NoRetention]

\* The specs the user may have left the Schedule with: as above, disabled,
\* with a cron expression that does not parse, both, with a source VM that
\* does not exist.
PolicySpecs ==
  {PauseSpec,
   [PauseSpec EXCEPT !.disabled = TRUE],
   [PauseSpec EXCEPT !.schedule = "not a cron"],
   [PauseSpec EXCEPT !.disabled = TRUE, !.schedule = "not a cron"],
   [PauseSpec EXCEPT !.source.name = "vmX"]}

\* The statuses an earlier run of the controller may have left on a Schedule
\* that never fired: none, Active, Paused, Failed after a rejected Snapshot
\* create, and Failed while the source VM was missing.
PriorStatuses ==
  {EmptyStatus,
   activeStatus(EmptyStatus, 1, -1, 0),
   pausedStatus(EmptyStatus),
   errorStatus(EmptyStatus, createErrorMessage(<<"vmA">>), 0),
   errorStatus(EmptyStatus, "VirtualMachine not found", 0)}

\* The controller starts on a Schedule that has a status already.
InitPolicy ==
  /\ \E sp \in PolicySpecs, st \in PriorStatuses :
       /\ apiSchedule = [NewSchedule(sp) EXCEPT !.status = st]
       /\ cachedSchedule = apiSchedule
  /\ clock = 0
  /\ schedWatch = <<>>
  /\ snapshots = {}
  /\ snapshotCache = {}
  /\ last = NoReconcile
  /\ faults = 0
  /\ vmCache = VMStore
  /\ wq = NoQueue
  /\ ret = NoRet

NextPolicy == Reconcile \/ Tick \/ DeliverSchedule \/ DeliverSnapshots

SpecPolicy == InitPolicy /\ [][NextPolicy]_vars

\* ------------------------------------------- a Schedule with a selector
\* A Schedule that selects the VMs labelled app=db of its namespace, vmA
\* and vmB, and keeps every Snapshot.
SelectorSpec ==
  [BaseSpec EXCEPT !.source = NoSource, !.vmSelector = "db", !.retention = NoRetention]

InitSelector ==
  /\ InitWith(SelectorSpec)
  /\ ret = NoRet

NextSelector == Reconcile \/ Tick \/ DeliverSchedule \/ DeliverSnapshots

SpecSelector == InitSelector /\ [][NextSelector]_vars

\* --------------------------------- a controller started after a long gap
\* The second the Schedule last fired at before the controller went down:
\* two cron minutes before second 0.
GapLast == 0 - 2 * MinuteLen

\* The status the earlier run left: Active, fired at GapLast.
GapStatus ==
  activeStatus([EmptyStatus EXCEPT !.lastSnapshotTime = GapLast], 1, GapLast, 0)

\* The controller starts on a Schedule of one VM, without retention, that
\* last fired at GapLast and whose Snapshots of then are gone.
InitGap ==
  /\ apiSchedule = [NewSchedule([BaseSpec EXCEPT !.retention = NoRetention])
                      EXCEPT !.status = GapStatus]
  /\ cachedSchedule = apiSchedule
  /\ clock = 0
  /\ schedWatch = <<>>
  /\ snapshots = {}
  /\ snapshotCache = {}
  /\ last = NoReconcile
  /\ faults = 0
  /\ vmCache = VMStore
  /\ wq = NoQueue
  /\ ret = NoRet

NextGap == Reconcile \/ Tick \/ DeliverSchedule \/ DeliverSnapshots

SpecGap == InitGap /\ [][NextGap]_vars

\* ------------------------------ a Schedule whose cron expression was edited
\* The statuses an earlier run left on a Schedule that fired at second 0
\* while its cron expression had period p: Active, or Failed because the
\* source VM was missing from the VM informer store afterwards.
EditStatuses ==
  UNION {{activeStatus([EmptyStatus EXCEPT !.lastSnapshotTime = 0], p, 0, 1),
          errorStatus(activeStatus([EmptyStatus EXCEPT !.lastSnapshotTime = 0], p, 0, 1),
                      "VirtualMachine not found", 0)} : p \in {1, 2}}

\* The cron expression the Schedule has now.
EditSpecs ==
  {[BaseSpec EXCEPT !.retention = NoRetention, !.schedule = expr] :
     expr \in {"* * * * *", "*/2 * * * *"}}

\* The controller starts on a Schedule that fired at second 0; the Snapshot
\* of then is on the server and in the Snapshot informer store.
InitEdit ==
  /\ \E sp \in EditSpecs, st \in EditStatuses :
       /\ apiSchedule = [NewSchedule(sp) EXCEPT !.status = st]
       /\ cachedSchedule = apiSchedule
       /\ snapshots = {newSnapshot(apiSchedule, "vmA", 0)}
       /\ snapshotCache = snapshots
  /\ clock = 0
  /\ schedWatch = <<>>
  /\ last = NoReconcile
  /\ faults = 0
  /\ vmCache = VMStore
  /\ wq = NoQueue
  /\ ret = NoRet

NextEdit == Reconcile \/ Tick \/ DeliverSchedule \/ DeliverSnapshots

SpecEdit == InitEdit /\ [][NextEdit]_vars

\* --------------------------- a Schedule of two VMs and rejected creates
\* A Schedule that selects vmA and vmB, keeps every Snapshot, and either
\* stops at a rejected create or carries on.
PartialSpecs ==
  {[SelectorSpec EXCEPT !.failurePolicy = fp] :
     fp \in {ScheduleFailurePolicyPause, ScheduleFailurePolicyContinue}}

\* The controller starts on the Schedule when it is new, or when it last
\* fired at GapLast and the Snapshots of then are gone.
InitPartial ==
  /\ \E sp \in PartialSpecs, st \in {EmptyStatus, GapStatus} :
       /\ apiSchedule = [NewSchedule(sp) EXCEPT !.status = st]
       /\ cachedSchedule = apiSchedule
  /\ clock = 0
  /\ schedWatch = <<>>
  /\ snapshots = {}
  /\ snapshotCache = {}
  /\ last = NoReconcile
  /\ faults = 0
  /\ vmCache = VMStore
  /\ wq = NoQueue
  /\ ret = NoRet

\* One second passes within the cron minute the controller started in.
TickPartial ==
  /\ clock < MinuteLen - 1
  /\ Tick

\* The Schedule keeps every Snapshot, so the Snapshot informer store feeds
\* nothing but currentSnapshotCount; its deliveries are left out.
NextPartial == Reconcile \/ TickPartial \/ DeliverSchedule

SpecPartial == InitPartial /\ [][NextPartial]_vars

\* ------------------------------------------ createScheduledSnapshots alone
\* The selectors of the Schedules the create loop is run for: app=db
\* matches vmA and vmB, app=web matches vmC.
CreateSelectors == {"db", "web"}

\* The loop is run at any second, for a Schedule with one of the selectors,
\* against a server on which any of the Snapshot names of that second may
\* be taken.
InitCreate ==
  /\ clock \in 0..MaxTime
  /\ \E sel \in CreateSelectors :
       apiSchedule = NewSchedule([SelectorSpec EXCEPT !.vmSelector = sel])
  /\ cachedSchedule = apiSchedule
  /\ vmCache = VMStore
  /\ snapshots \in SUBSET {newSnapshot(apiSchedule, vm, clock) :
                             vm \in getVMsToSnapshot(apiSchedule).vms}
  /\ snapshotCache = {}
  /\ schedWatch = <<>>
  /\ last = NoReconcile
  /\ faults = 0
  /\ wq = NoQueue
  /\ ret = NoRet

\* createScheduledSnapshots(schedule, vms) for the VMs the Schedule
\* selects; the server rejects the creates of createFail, and order is the
\* order in which the loop meets the rejected VMs.  The record keeps the
\* error returned and the events recorded.
CreateAll ==
  /\ last.branch = "none"
  /\ LET sched == cachedSchedule
         vms == getVMsToSnapshot(sched).vms
     IN  \E createFail \in SUBSET vms :
           LET res == createScheduledSnapshots(sched, vms, snapshots, clock, createFail)
           IN  \E order \in Perms(res.failed) :
                 /\ snapshots' = snapshots \cup res.created
                 /\ last' = [NoReconcile EXCEPT
                               !.branch = "createAll",
                               !.now = clock,
                               !.spec = sched.spec,
                               !.vms = vms,
                               !.fired = TRUE,
                               !.createFailed = res.failed,
                               !.createExists = res.exists,
                               !.created = res.created,
                               !.events = createEvents(res),
                               !.err = IF res.failed = {} THEN ""
                                       ELSE createErrorMessage(order)]
  /\ UNCHANGED <<clock, apiSchedule, cachedSchedule, schedWatch, snapshotCache, faults, ret,
                 vmCache, wq>>

NextCreate == CreateAll

SpecCreate == InitCreate /\ [][NextCreate]_vars

\* --------------------------------- Schedules with unusual target fields
\* A retention policy under which every Snapshot older than now expires.
ExpireAll == [set |-> TRUE, expires |-> 0, maxCount |-> NULL]

\* A Schedule with both source and vmSelector, one with neither, and one
\* whose vmSelector (app=mail) matches no VM and whose Snapshots all expire.
TargetSpecs ==
  {[BaseSpec EXCEPT !.vmSelector = "db", !.retention = NoRetention],
   [BaseSpec EXCEPT !.source = NoSource, !.retention = NoRetention],
   [BaseSpec EXCEPT !.source = NoSource, !.vmSelector = "mail", !.retention = ExpireAll]}

\* The statuses an earlier run left: none on a new Schedule; Active after a
\* fire at second 0, when the spec still named vmA; Failed after that fire,
\* while vmA was missing.
TargetStatuses ==
  {EmptyStatus,
   activeStatus([EmptyStatus EXCEPT !.lastSnapshotTime = 0], 1, 0, 1),
   errorStatus(activeStatus([EmptyStatus EXCEPT !.lastSnapshotTime = 0], 1, 0, 1),
               "VirtualMachine not found", 0)}

\* The controller starts on such a Schedule; the Snapshot of the fire at
\* second 0, if there was one, is on the server and in the informer store.
InitTargets ==
  /\ \E sp \in TargetSpecs, st \in TargetStatuses :
       /\ apiSchedule = [NewSchedule(sp) EXCEPT !.status = st]
       /\ cachedSchedule = apiSchedule
       /\ snapshots = IF st = EmptyStatus THEN {}
                      ELSE {newSnapshot(apiSchedule, "vmA", 0)}
       /\ snapshotCache = snapshots
  /\ clock = 0
  /\ schedWatch = <<>>
  /\ last = NoReconcile
  /\ faults = 0
  /\ vmCache = VMStore
  /\ wq = NoQueue
  /\ ret = NoRet

NextTargets == Reconcile \/ Tick \/ DeliverSchedule \/ DeliverSnapshots

SpecTargets == InitTargets /\ [][NextTargets]_vars

\* ---------------------------------------------- updateScheduleStatus alone
\* The statuses the status writer is run on: the fields statusEqual reads,
\* the error and the per-VM sub-status, two values each.
WriterStatuses ==
  {[EmptyStatus EXCEPT !.phase = p, !.lastSnapshotTime = l,
                       !.nextSnapshotTime = IF l = NULL THEN NULL ELSE cronNext(1, l),
                       !.currentSnapshotCount = c, !.error = e,
                       !.vmSnapshotStatuses = v] :
     p \in {SchedulePhaseActive, SchedulePhaseFailed},
     l \in {NULL, 0},
     c \in {0, 1},
     e \in {NoError, [time |-> 0, message |-> "VirtualMachine not found"]},
     v \in {{}, {[name |-> "vmA", currentSnapshotCount |-> 1]}}}

\* The Schedule informer store without the Schedule's key.
NoSchedule == [name |-> "", namespace |-> "", spec |-> BaseSpec, status |-> EmptyStatus]

\* The writer is handed a candidate status, built on the copy of the
\* Schedule the worker took from the informer store; when it reads the
\* store itself, the store may hold a later version of the Schedule, or
\* none.
InitWriter ==
  /\ \E current \in WriterStatuses, candidate \in WriterStatuses :
       /\ apiSchedule = [NewSchedule(BaseSpec) EXCEPT !.status = current]
       /\ cachedSchedule \in {apiSchedule, NoSchedule}
       /\ last = [NoReconcile EXCEPT !.candidate = candidate]
  /\ clock = 0
  /\ schedWatch = <<>>
  /\ snapshots = {}
  /\ snapshotCache = {}
  /\ faults = 0
  /\ vmCache = VMStore
  /\ wq = NoQueue
  /\ ret = NoRet

\* updateScheduleStatus(schedule): nothing when the store does not hold the
\* Schedule, else the comparison and the patch, which the server may
\* reject.
WriteStatus ==
  /\ last.branch = "none"
  /\ \E patchFail \in BOOLEAN :
       LET outcome == IF cachedSchedule = NoSchedule THEN "absent"
                      ELSE updateScheduleStatus(cachedSchedule.status, last.candidate,
                                                patchFail)
       IN  /\ ~patchFail \/ outcome = "failed"
           /\ last' = [last EXCEPT !.branch = "write",
                                   !.cached = cachedSchedule.status,
                                   !.write = outcome,
                                   !.err = IF outcome = "failed"
                                           THEN "status patch failed" ELSE ""]
           /\ apiSchedule' = IF outcome = "patched"
                             THEN [apiSchedule EXCEPT !.status = last.candidate]
                             ELSE apiSchedule
           /\ schedWatch' = IF outcome = "patched"
                            THEN pushWatch(schedWatch, apiSchedule') ELSE schedWatch
  /\ UNCHANGED <<clock, cachedSchedule, snapshots, snapshotCache, faults, ret, vmCache, wq>>

NextWriter == WriteStatus

SpecWriter == InitWriter /\ [][NextWriter]_vars

\* ------------------------------------------- the Snapshot event handler
\* The objects the Snapshot informer hands to its handlers: Snapshots of
\* two namespaces without labels, with another label only, or with the
\* schedule-name label of Schedule s1 or s2.
EventLabels ==
  {NoLabels,
   [k \in {scheduledSnapshotLabel} |-> "true"],
   [k \in {scheduleNameLabel} |-> "s1"],
   [k \in {scheduleNameLabel, scheduledSnapshotLabel} |->
      IF k = scheduleNameLabel THEN "s2" ELSE "true"]}

EventSnapshots ==
  {[type |-> "VirtualMachineSnapshot", namespace |-> ns, name |-> "snap", labels |-> l] :
     ns \in {"ns1", "ns2"}, l \in EventLabels}

\* A nil interface value.
NilObject == [type |-> "nil"]

\* cache.DeletedFinalStateUnknown: the informer missed the delete and hands
\* over the last state it knew, or none.
Tombstones ==
  {[type |-> "DeletedFinalStateUnknown", obj |-> o] : o \in EventSnapshots \cup {NilObject}}

\* The events of the Snapshot informer: AddFunc(obj), UpdateFunc(old, new)
\* of one object, DeleteFunc(obj) with the object or a tombstone.
SnapshotEvents ==
  {[kind |-> "add", old |-> NilObject, obj |-> o] : o \in EventSnapshots}
    \cup {[kind |-> "update", old |-> p[1], obj |-> p[2]] :
            p \in {q \in EventSnapshots \X EventSnapshots :
                     q[1].namespace = q[2].namespace}}
    \cup {[kind |-> "delete", old |-> NilObject, obj |-> o] :
            o \in EventSnapshots \cup Tombstones}

\* A mutant of handleVMSnapshotForSchedule: a tombstone is not unwrapped.
handleVMSnapshotForSchedule_noTombstone(obj) ==
  IF obj.type # "VirtualMachineSnapshot" THEN <<>>
  ELSE IF scheduleNameLabel \notin DOMAIN obj.labels THEN <<>>
  ELSE <<obj.namespace \o "/" \o obj.labels[scheduleNameLabel]>>

\* handleVMSnapshotForSchedule(obj): the keys it adds to the queue.  A
\* tombstone with an object is unwrapped; anything that is not a Snapshot,
\* or a Snapshot without the schedule-name label, adds nothing.
handleVMSnapshotForSchedule(obj) ==
  LET snapshot == IF obj.type = "DeletedFinalStateUnknown" /\ obj.obj.type # "nil"
                  THEN obj.obj ELSE obj
  IN  IF snapshot.type # "VirtualMachineSnapshot" THEN <<>>
      ELSE IF scheduleNameLabel \notin DOMAIN snapshot.labels THEN <<>>
      ELSE <<snapshot.namespace \o "/" \o snapshot.labels[scheduleNameLabel]>>

\* The controller before the first event of the Snapshot informer.
InitEvents ==
  /\ InitWith(BaseSpec)
  /\ ret = NoRet

\* The Snapshot informer delivers an event: Init registered
\* handleVMSnapshotForSchedule for adds and deletes, and for updates with
\* the new object.
SnapshotEvent ==
  /\ \E ev \in SnapshotEvents :
       LET adds == handleVMSnapshotForSchedule(ev.obj)
       IN  /\ wq' = IF adds = <<>> THEN wq ELSE queueAdd(wq, adds[1])
           /\ last' = [branch |-> "snapshotEvent", event |-> ev, before |-> wq,
                       adds |-> adds]
  /\ UNCHANGED <<clock, apiSchedule, cachedSchedule, schedWatch, snapshots, snapshotCache,
                 faults, ret, vmCache>>

NextEvents == SnapshotEvent

SpecEvents == InitEvents /\ [][NextEvents]_vars

\* ------------------------------------- reconciles at the requeue delays
\* The Schedules the controller is started on.
FirstSpecs == ScheduleSpecs \cup PartialSpecs \cup {SelectorSpec}

\* The controller starts on a new Schedule; the server rejects no call.
InitFirst ==
  /\ \E sp \in FirstSpecs :
       /\ apiSchedule = NewSchedule(sp)
       /\ cachedSchedule = apiSchedule
  /\ clock = 0
  /\ schedWatch = <<>>
  /\ snapshots = {}
  /\ snapshotCache = {}
  /\ last = NoReconcile
  /\ faults = MaxFaults
  /\ vmCache = VMStore
  /\ wq = NoQueue
  /\ ret = NoRet

\* The Schedule's key is handed to a worker for the add event of the
\* Schedule, and after that when the delay the last reconcile returned
\* (processScheduleWorkItem, AddAfter) has passed.
ReconcileDue ==
  /\ \/ last.branch = "none"
     \/ last.requeueAfter > 0 /\ clock = last.now + last.requeueAfter
  /\ Reconcile

\* One second passes; the delayed key is not kept waiting.
TickFirst ==
  /\ \/ last.branch = "none"
     \/ last.requeueAfter = 0
     \/ clock < last.now + last.requeueAfter
  /\ Tick

NextFirst == ReconcileDue \/ TickFirst \/ DeliverSchedule \/ DeliverSnapshots

\* The workers run, the delay timers fire, time passes and the informers
\* catch up.
SpecFirst ==
  /\ InitFirst
  /\ [][NextFirst]_vars
  /\ WF_vars(ReconcileDue)
  /\ WF_vars(TickFirst)
  /\ WF_vars(DeliverSchedule)
  /\ WF_vars(DeliverSnapshots)

\* ------------------------------------------------- Snapshot names alone
\* Names of Schedules and of VMs of one namespace; object names may contain
\* hyphens.
NameSchedules == {"s", "s-x"}
NameVMs == {"x", "y", "x-y"}

\* The Schedule named n with source VM vm.
NamedSchedule(n, vm) ==
  [NewSchedule([BaseSpec EXCEPT !.source.name = vm, !.retention = NoRetention])
     EXCEPT !.name = n]

\* The create loop is run at any second for a Schedule and its source VM,
\* against a server that holds nothing or the Snapshot some Schedule of the
\* namespace has created for its VM in that second.
InitNames ==
  /\ clock \in 0..MaxTime
  /\ \E n \in NameSchedules, vm \in NameVMs : apiSchedule = NamedSchedule(n, vm)
  /\ cachedSchedule = apiSchedule
  /\ vmCache = {[name |-> vm, namespace |-> "ns1", app |-> "db"] : vm \in NameVMs}
  /\ snapshots \in {{}} \cup {{newSnapshot(NamedSchedule(n, vm), vm, clock)} :
                                 n \in NameSchedules, vm \in NameVMs}
  /\ snapshotCache = {}
  /\ schedWatch = <<>>
  /\ last = NoReconcile
  /\ faults = 0
  /\ wq = NoQueue
  /\ ret = NoRet

NextNames == CreateAll

SpecNames == InitNames /\ [][NextNames]_vars

\* ------------------------------------- retention among foreign Snapshots
\* A Schedule of vmA whose Snapshots all expire, and one without a retention
\* policy.
FrameSpecs ==
  {[BaseSpec EXCEPT !.retention = ExpireAll],
   [BaseSpec EXCEPT !.retention = NoRetention]}

\* The Schedule's own Snapshot of vmA, created at second 0.
OwnSnapshot == newSnapshot(NewSchedule(BaseSpec), "vmA", 0)

\* Snapshots of second 0 that are not the Schedule's: its namesake in
\* another namespace, one of Schedule s2, one made by hand without labels,
\* one labelled for the Schedule but for vmC, which is not its source, and
\* one with the schedule-name label only.
ForeignSnapshots ==
  {[OwnSnapshot EXCEPT !.namespace = "ns2"],
   newSnapshot([NewSchedule(BaseSpec) EXCEPT !.name = "s2"], "vmA", 0),
   [OwnSnapshot EXCEPT !.name = "manual", !.labels = NoLabels, !.owner = ""],
   newSnapshot(NewSchedule(BaseSpec), "vmC", 0),
   [OwnSnapshot EXCEPT !.name = "partial", !.owner = "",
                       !.labels = [k \in {scheduleNameLabel} |-> "s1"]]}

\* The controller starts on a Schedule that fired at second 0; the server
\* and the informer store hold its Snapshot and the foreign ones.
InitFrame ==
  /\ \E sp \in FrameSpecs :
       /\ apiSchedule = [NewSchedule(sp) EXCEPT
                           !.status = activeStatus([EmptyStatus EXCEPT !.lastSnapshotTime = 0],
                                                   1, 0, 1)]
       /\ cachedSchedule = apiSchedule
  /\ snapshots = {OwnSnapshot} \cup ForeignSnapshots
  /\ snapshotCache = snapshots
  /\ clock = 0
  /\ schedWatch = <<>>
  /\ last = NoReconcile
  /\ faults = 0
  /\ vmCache = VMStore
  /\ wq = NoQueue
  /\ ret = NoRet

\* Retention reads the Schedule's spec, the VM store and the Snapshot store,
\* not the Schedule's status; the deliveries of the Schedule informer are
\* left out.
NextFrame == Reconcile \/ Tick \/ DeliverSnapshots

SpecFrame == InitFrame /\ [][NextFrame]_vars

\* --------------------------- Snapshots of a VM that is no longer a target
\* Schedules whose Snapshots all expire and whose vmSelector was edited
\* after the fire at second 0: app=web matches vmC only, app=mail no VM.
OrphanSpecs ==
  {[BaseSpec EXCEPT !.source = NoSource, !.vmSelector = sel, !.retention = ExpireAll] :
     sel \in {"web", "mail"}}

\* The controller starts on such a Schedule; the Snapshot of vmA of the
\* fire at second 0 is on the server and in the informer store, and the
\* server rejects no call.
InitOrphan ==
  /\ \E sp \in OrphanSpecs :
       /\ apiSchedule = [NewSchedule(sp) EXCEPT
                           !.status = activeStatus([EmptyStatus EXCEPT !.lastSnapshotTime = 0],
                                                   1, 0, 1)]
       /\ cachedSchedule = apiSchedule
  /\ snapshots = {OwnSnapshot}
  /\ snapshotCache = snapshots
  /\ clock = 0
  /\ schedWatch = <<>>
  /\ last = NoReconcile
  /\ faults = MaxFaults
  /\ vmCache = VMStore
  /\ wq = NoQueue
  /\ ret = NoRet

NextOrphan == Reconcile \/ Tick \/ DeliverSchedule \/ DeliverSnapshots

\* The Schedule keeps being reconciled (resync, requeue), time passes and
\* the informers catch up.
SpecOrphan ==
  /\ InitOrphan
  /\ [][NextOrphan]_vars
  /\ WF_vars(Reconcile)
  /\ WF_vars(Tick)
  /\ WF_vars(DeliverSchedule)
  /\ WF_vars(DeliverSnapshots)

\* ---------------------------------------------------------------- claims
TheSchedule == apiSchedule
Stored == apiSchedule.status
Ran == last.branch # "none"
Minute(t) == t \div MinuteLen

\* The reconcile found an enabled Schedule with a valid cron expression and
\* at least one target VM.
Resolvable(sched) ==
  /\ cronParse(sched.spec.schedule).ok
  /\ ~sched.spec.disabled
  /\ getVMsToSnapshot(sched).err = ""
  /\ getVMsToSnapshot(sched).vms # {}

C2_OneSnapshotPerMinute ==
  \A s1, s2 \in snapshots :
    (s1.source = s2.source /\ Minute(s1.creationTimestamp) = Minute(s2.creationTimestamp))
    => s1 = s2

\* C3 as stated: a reconcile of a disabled Schedule issues no Snapshot
\* create and no delete and returns (0, nil).
C3_PausedReturnsNil ==
  (Ran /\ cachedSchedule.spec.disabled)
  => /\ ~last.fired /\ last.created = {} /\ last.selected = {}
     /\ last.requeueAfter = 0
     /\ last.err = ""

\* C3 amended: a reconcile of a disabled Schedule issues no Snapshot create
\* and no delete and returns a zero requeue delay; it returns a nil error and
\* ends Paused when the cron expression parses and the status patch is not
\* rejected, the parse error when the expression does not parse, and the
\* patch error when the patch is rejected.
C3_PauseSafety ==
  (Ran /\ cachedSchedule.spec.disabled)
  => /\ ~last.fired /\ last.created = {} /\ last.createFailed = {}
     /\ last.createExists = {} /\ last.selected = {}
     /\ last.requeueAfter = 0
     /\ last.write = "failed" => last.err = "status patch failed"
     /\ (last.write # "failed" /\ cronParse(cachedSchedule.spec.schedule).ok)
          => (last.err = "" /\ last.candidate.phase = SchedulePhasePaused)
     /\ (last.write # "failed" /\ ~cronParse(cachedSchedule.spec.schedule).ok)
          => (last.err = "invalid cron expression"
              /\ last.candidate.phase = SchedulePhaseFailed)

\* A disabled Schedule was reconciled and its Paused status was patched.
C3_Witness ==
  /\ cachedSchedule.spec.disabled
  /\ last.branch = "paused"
  /\ last.write = "patched"
  /\ Stored.phase = SchedulePhasePaused

\* C4: while no API call is rejected, the stored lastSnapshotTime never
\* moves from one instant to an earlier one.
C4_LastSnapshotTimeMonotonic ==
  [][(/\ faults' = 0
      /\ Stored.lastSnapshotTime # NULL
      /\ Stored'.lastSnapshotTime # NULL)
     => Stored'.lastSnapshotTime >= Stored.lastSnapshotTime]_vars

\* The Snapshots of store that carry the Schedule's namespace and its
\* schedule-name label.
Labelled(store) ==
  {s \in store : /\ s.namespace = TheSchedule.namespace
                 /\ LabelOf(s.labels, scheduleNameLabel) = TheSchedule.name}

EndedActive == last.branch \in {"active", "novms"}

\* C5 as stated: after a reconcile that ends Active, currentSnapshotCount is
\* the number of Snapshots on the server that carry the Schedule's namespace
\* and schedule-name label, those the reconcile created included and those
\* it deleted excluded.
C5_CountMatchesServer ==
  EndedActive => last.candidate.currentSnapshotCount = Cardinality(Labelled(snapshots))

\* C5 amended: after a reconcile that ends Active, currentSnapshotCount is
\* the number of Snapshots in the informer store the reconcile listed that
\* carry the Schedule's namespace and schedule-name label; when that store
\* was level with the server, the count misses the Snapshots this reconcile
\* created and still holds those it deleted.
C5_CountMatchesStore ==
  EndedActive =>
    /\ last.candidate.currentSnapshotCount = Cardinality(Labelled(last.store))
    /\ (afterDelete(last.store \cup last.created, last.selected \ last.deleteFailed)
          = snapshots)
       => last.candidate.currentSnapshotCount =
            Cardinality(Labelled(snapshots)) - Cardinality(Labelled(last.created))
              + Cardinality(Labelled(last.selected \ last.deleteFailed))

\* A reconcile fired, created a Snapshot, deleted another and counted the
\* store, which was level with the server.
C5_Witness ==
  /\ last.branch = "active"
  /\ last.created # {}
  /\ last.selected \ last.deleteFailed # {}
  /\ afterDelete(last.store \cup last.created, last.selected \ last.deleteFailed) = snapshots
  /\ last.candidate.currentSnapshotCount = 2

\* Retention ran in the last reconcile under a policy of maxCount only.
CountOnlyRetention ==
  /\ last.branch = "active"
  /\ cachedSchedule.spec.retention.set
  /\ cachedSchedule.spec.retention.maxCount # NULL
  /\ cachedSchedule.spec.retention.expires = NULL

\* C6 as stated: at the end of a reconcile in which retention ran with
\* maxCount = N and no expires, every target VM has at most N Snapshots.
C6_AtMostMaxCount ==
  CountOnlyRetention =>
    \A vm \in last.vms :
      Cardinality(getScheduledSnapshotsForVM(TheSchedule, vm, snapshots))
        <= cachedSchedule.spec.retention.maxCount

\* C6 amended: at the end of a reconcile in which retention ran with
\* maxCount = N and no expires, at most N of the Snapshots of each target VM
\* that the reconcile listed from the informer store are left unselected, and
\* every selected Snapshot whose delete was not rejected is gone from the
\* server.
C6_AtMostMaxCountListed ==
  CountOnlyRetention =>
    /\ \A vm \in last.vms :
         Cardinality(getScheduledSnapshotsForVM(TheSchedule, vm, last.store) \ last.selected)
           <= cachedSchedule.spec.retention.maxCount
    /\ last.selected \subseteq last.listed
    /\ \A s \in last.selected \ last.deleteFailed :
         ~\E x \in snapshots : x.namespace = s.namespace /\ x.name = s.name

\* A reconcile fired and its retention pass deleted a Snapshot.
C6_Witness ==
  /\ CountOnlyRetention
  /\ last.fired
  /\ last.created # {}
  /\ last.selected # {}
  /\ last.deleteFailed = {}

\* C7: retention for one VM issues a delete for exactly the Snapshots older
\* than expires plus, when more than maxCount remain, the oldest
\* (remaining - maxCount) of the remaining ones.
C7_RetentionSelection ==
  ret.done =>
    LET listed == getScheduledSnapshotsForVM(RetSchedule(ret.retention), "vmA", ret.store)
        expired == {s \in listed : /\ ret.retention.expires # NULL
                                   /\ ret.now - s.creationTimestamp > ret.retention.expires}
        remaining == listed \ expired
        excess == IF /\ ret.retention.maxCount # NULL
                     /\ Cardinality(remaining) > ret.retention.maxCount
                  THEN Cardinality(remaining) - ret.retention.maxCount ELSE 0
        byCount == ret.selected \ expired
    IN  /\ expired \subseteq ret.selected
        /\ byCount \subseteq remaining
        /\ Cardinality(byCount) = excess
        /\ \A d \in byCount, k \in remaining \ byCount :
             d.creationTimestamp <= k.creationTimestamp

\* Three Snapshots of ages 1, 2 and 3 under expires = 2 and maxCount = 1: the
\* oldest is deleted for its age, the next for the count, the newest stays.
C7_Witness ==
  /\ ret.done
  /\ ret.retention.expires = 2
  /\ ret.retention.maxCount = 1
  /\ Cardinality(ret.store) = 3
  /\ {ret.now - s.creationTimestamp : s \in ret.store} = {1, 2, 3}
  /\ {ret.now - s.creationTimestamp : s \in ret.selected} = {2, 3}

\* The position of a Snapshot's name in lexicographic order.
NameRank(s) ==
  CHOOSE i \in 0..(RetNames - 1) : s.name = snapshotName(NewSchedule(BaseSpec), "vmA", i)

\* The listed Snapshots ordered by (creationTimestamp, name).
ByStampThenName(snaps) ==
  CHOOSE p \in Perms(snaps) :
    \A i, j \in 1..Len(p) :
      i < j => \/ p[i].creationTimestamp < p[j].creationTimestamp
               \/ /\ p[i].creationTimestamp = p[j].creationTimestamp
                  /\ NameRank(p[i]) < NameRank(p[j])

\* C8: the Snapshots retention deletes are those the (creationTimestamp,
\* name) order and the retention parameters determine.
C8_DeletionDeterminism ==
  ret.done =>
    ret.selected = Range(snapshotsToDelete(ByStampThenName(ret.store), ret.retention,
                                           ret.now))

\* C9: every Snapshot of the controller carries the schedule-name label of
\* its Schedule and lives in the Schedule's namespace.
C9_SnapshotsCarryScheduleName ==
  \A s \in snapshots :
    /\ LabelOf(s.labels, scheduleNameLabel) = TheSchedule.name
    /\ s.namespace = TheSchedule.namespace

\* C10: a stored Active status with lastSnapshotTime and nextSnapshotTime set
\* has nextSnapshotTime strictly later than lastSnapshotTime.
C10_NextAfterLast ==
  (/\ Stored.phase = SchedulePhaseActive
   /\ Stored.lastSnapshotTime # NULL
   /\ Stored.nextSnapshotTime # NULL)
  => Stored.nextSnapshotTime > Stored.lastSnapshotTime

\* The stored status is Active after a fire at a cron instant.
C10_Witness ==
  /\ Stored.phase = SchedulePhaseActive
  /\ Stored.lastSnapshotTime # NULL
  /\ Stored.lastSnapshotTime % MinuteLen = 0
  /\ Stored.nextSnapshotTime = Stored.lastSnapshotTime + MinuteLen

\* C11: after a reconcile that parsed the cron expression and whose status
\* write was not rejected, the phase is Paused exactly when the Schedule it
\* read had disabled=true, or has failurePolicy=Pause and a Snapshot create
\* of that reconcile failed.
C11_PausedIffDisabledOrPauseFailure ==
  (Ran /\ last.branch # "cron" /\ last.write # "failed")
  => (last.candidate.phase = SchedulePhasePaused
      <=> \/ last.spec.disabled
          \/ /\ last.spec.failurePolicy = ScheduleFailurePolicyPause
             /\ last.createFailed # {})

\* C12: while the stored status of a failurePolicy=Pause Schedule is Failed
\* with the error of a rejected Snapshot create, and the informer has seen
\* that status, no reconcile issues a Snapshot create.
C12_NoCreateWhileFailed ==
  [][(/\ TheSchedule.spec.failurePolicy = ScheduleFailurePolicyPause
      /\ Stored.phase = SchedulePhaseFailed
      /\ Stored.error.message = createErrorMessage(<<"vmA">>)
      /\ cachedSchedule = apiSchedule
      /\ last' # last)
     => ~last'.fired]_vars

\* C13: whenever the stored status of the Schedule has phase Active, its
\* error is nil and its nextSnapshotTime is set.
C13_ActiveHasNoError ==
  Stored.phase = SchedulePhaseActive
  => (Stored.error = NoError /\ Stored.nextSnapshotTime # NULL)

\* A reconcile read a Failed status with its error and stored an Active one.
C13_Witness ==
  /\ Ran
  /\ last.cached.phase = SchedulePhaseFailed
  /\ last.cached.error # NoError
  /\ last.write = "patched"
  /\ Stored = last.candidate
  /\ Stored.phase = SchedulePhaseActive

\* C14: whenever the stored status of the Schedule has phase Failed, its
\* error carries a message and a time.
C14_FailedHasError ==
  Stored.phase = SchedulePhaseFailed
  => (Stored.error.message # "" /\ Stored.error.time # NULL)

\* A reconcile that read a status without an error failed and stored it.
C14_Witness ==
  /\ Ran
  /\ last.branch \in {"cron", "vms", "create"}
  /\ last.cached.error = NoError
  /\ last.write = "patched"
  /\ Stored = last.candidate
  /\ Stored.phase = SchedulePhaseFailed

\* The reconcile l ran after a gap: at least two cron instants had passed
\* since the lastSnapshotTime it read.
AfterGap(l) ==
  /\ l.branch # "none"
  /\ l.cached.lastSnapshotTime # NULL
  /\ cronNext(cronParse(l.spec.schedule).period,
              cronNext(cronParse(l.spec.schedule).period, l.cached.lastSnapshotTime))
       <= l.now

\* C15: a reconcile after a gap fires, creates one Snapshot per target VM
\* when no call is rejected, and sets lastSnapshotTime to now; the reconcile
\* that follows a reconcile that created Snapshots, within the same cron
\* minute, creates no further Snapshot.
C15_OneCatchUp ==
  [][(last' # last)
     => /\ (AfterGap(last') /\ faults' = 0)
           => /\ last'.fired
              /\ \A vm \in last'.vms :
                   Cardinality({x \in last'.created : x.source = vm})
                     + (IF vm \in last'.createExists THEN 1 ELSE 0) = 1
              /\ last'.candidate.lastSnapshotTime = last'.now
        /\ (last.created # {} /\ Minute(last'.now) = Minute(last.now))
           => last'.created = {}]_vars

\* C16: no two workers hold the same key; the keys held are the keys being
\* processed and none of them is queued; a marked key that no worker holds
\* is queued exactly once, and nothing else is queued.  A key added while a
\* worker holds it is therefore handed out again only after that worker is
\* done with it.
C16_PerKeySerialization ==
  /\ \A w1, w2 \in Workers :
       (w1 # w2 /\ wq.holding[w1] # "") => wq.holding[w1] # wq.holding[w2]
  /\ wq.processing = {wq.holding[w] : w \in Workers} \ {""}
  /\ \A key \in QueueKeys :
       Cardinality({i \in 1..Len(wq.queue) : wq.queue[i] = key})
         = IF key \in wq.dirty \ wq.processing THEN 1 ELSE 0

\* Two workers reconcile different keys at once, and one of the keys has
\* been added again meanwhile.
C16_Witness ==
  \E w1, w2 \in Workers :
    /\ wq.holding[w1] # "" /\ wq.holding[w2] # ""
    /\ wq.holding[w1] # wq.holding[w2]
    /\ wq.holding[w1] \in wq.dirty

\* C17: a reconcile of a Schedule in source mode whose VM is not in the VM
\* informer's store ends Failed; and once the VM is in the store, a Schedule
\* whose stored phase is Failed is eventually stored Active, the Schedule's
\* spec never changing.
C17_RecoversWhenVMAppears ==
  /\ []((Ran /\ last.branch = "vms") => last.candidate.phase = SchedulePhaseFailed)
  /\ [][apiSchedule'.spec = apiSchedule.spec]_vars
  /\ ((vmCache = VMStore /\ Stored.phase = SchedulePhaseFailed)
        ~> (Stored.phase = SchedulePhaseActive))

\* The VM is there, and a reconcile that read the Failed status stored
\* Active.
C17_Witness ==
  /\ vmCache = VMStore
  /\ Ran
  /\ last.cached.phase = SchedulePhaseFailed
  /\ last.cached.error.message = "VirtualMachine not found"
  /\ last.write = "patched"
  /\ Stored.phase = SchedulePhaseActive

\* C18 as stated: whatever phase the reconcile read, it ends Paused when the
\* Schedule it read has disabled=true, Failed when it hit a parse or resolve
\* error or a create error under failurePolicy=Pause, and Active otherwise.
C18_PhaseFromObservation ==
  Ran =>
    /\ last.spec.disabled => last.candidate.phase = SchedulePhasePaused
    /\ last.branch \in {"cron", "vms", "create"}
         => last.candidate.phase = SchedulePhaseFailed
    /\ (~last.spec.disabled /\ last.branch \notin {"cron", "vms", "create"})
         => last.candidate.phase = SchedulePhaseActive

\* The phase the reconcile of spec sp ends with when the Snapshot creates of
\* createFailed are rejected, by the order of the checks: parse error,
\* disabled, resolve error, create error under Pause.
PhaseByPrecedence(sp, createFailed) ==
  IF ~cronParse(sp.schedule).ok THEN SchedulePhaseFailed
  ELSE IF sp.disabled THEN SchedulePhasePaused
  ELSE IF getVMsToSnapshot(NewSchedule(sp)).err # "" THEN SchedulePhaseFailed
  ELSE IF sp.failurePolicy = ScheduleFailurePolicyPause /\ createFailed # {}
       THEN SchedulePhaseFailed
  ELSE SchedulePhaseActive

\* C18 amended: the phase a reconcile ends with is a function of the spec and
\* the VMs it read and of the creates that were rejected, not of the phase it
\* read: a cron expression that does not parse gives Failed even when
\* disabled=true; otherwise disabled=true gives Paused; otherwise a resolve
\* error, or a create error under failurePolicy=Pause, gives Failed;
\* otherwise Active.
C18_PhaseByPrecedence ==
  Ran => last.candidate.phase = PhaseByPrecedence(last.spec, last.createFailed)

\* A reconcile read a Failed status and ended Paused.
C18_Witness ==
  /\ Ran
  /\ last.cached.phase = SchedulePhaseFailed
  /\ last.candidate.phase = SchedulePhasePaused
  /\ last.write = "patched"

\* C19: after a reconcile that fired for a Schedule with a vmSelector and
\* wrote its status, status.vmSnapshotStatuses holds one entry per matched
\* VM, with the name and time of the Snapshot just taken of that VM and the
\* number of that VM's Snapshots in the informer store.
C19_PerVMStatuses ==
  (Ran /\ last.fired /\ last.spec.vmSelector # "" /\ last.createFailed = {}
       /\ last.write = "patched")
  => /\ {e.vmName : e \in last.candidate.vmSnapshotStatuses} = last.vms
     /\ \A e \in last.candidate.vmSnapshotStatuses :
          /\ e.lastSnapshotName = snapshotName(cachedSchedule, e.vmName, last.now)
          /\ e.lastSnapshotTime = last.now
          /\ e.currentSnapshotCount =
               Cardinality(getScheduledSnapshotsForVM(cachedSchedule, e.vmName,
                                                      last.store))

\* C20 as stated: when Run has returned, the queue is shut down and no
\* reconcile is in flight: no worker holds a key.
C20_RunWaitsForWorkers ==
  wq.returned => (wq.shuttingDown /\ \A w \in Workers : wq.holding[w] = "")

\* C20 amended: Run returns only after the stop channel is closed and with
\* the queue shut down, but without waiting for the workers; once the queue
\* is shut down no key is added or set to be added later; a worker ends only
\* when it holds no key, and never takes a key again; closing the stop
\* channel, Run's return and a worker's end leave the Snapshots alone.
C20_RunReturnsWithoutWaiting ==
  [][/\ wq'.returned => (wq'.stopped /\ wq'.shuttingDown)
     /\ wq.shuttingDown
          => (wq'.shuttingDown /\ wq'.dirty \subseteq wq.dirty
              /\ wq'.waiting \subseteq wq.waiting)
     /\ \A w \in wq'.exited : wq'.holding[w] = ""
     /\ wq.exited \subseteq wq'.exited
     /\ (wq'.stopped # wq.stopped \/ wq'.returned # wq.returned \/ wq'.exited # wq.exited)
          => snapshots' = snapshots]_vars

\* Run has returned while a worker still holds the key of a reconcile that
\* created a Snapshot; the Snapshot is there.
C20_Witness ==
  /\ wq.returned
  /\ \E w \in Workers : wq.holding[w] = keyOf(cachedSchedule) /\ wq.handled[w]
  /\ last.created # {}
  /\ last.created \subseteq snapshots

\* The last reconcile reached the fire decision of lines 89-99: the cron
\* expression parsed, the Schedule is enabled and at least one VM resolved.
Decided == last.branch \in {"active", "create"}

\* The last reconcile issued at least one Snapshot create.
IssuedCreates ==
  last.created # {} \/ last.createExists # {} \/ last.createFailed # {}

\* cron.Next(lastSnapshotTime) of the Schedule the last reconcile was handed.
DueAt == cronNext(cronParse(last.spec.schedule).period, last.cached.lastSnapshotTime)

\* C21 (as stated): for a Schedule whose lastSnapshotTime is set, a
\* reconcile that reaches the fire decision at second now issues Snapshot
\* creates if and only if now >= cron.Next(lastSnapshotTime); when now is
\* earlier it creates no Snapshot and leaves lastSnapshotTime and
\* nextSnapshotTime as they were.
C21_FireIffDue ==
  (Decided /\ last.cached.lastSnapshotTime # NULL) =>
    /\ IssuedCreates <=> last.now >= DueAt
    /\ last.now < DueAt =>
         /\ last.created = {}
         /\ last.candidate.lastSnapshotTime = last.cached.lastSnapshotTime
         /\ last.candidate.nextSnapshotTime = last.cached.nextSnapshotTime

\* C21 (amended): the same fire decision; when now is earlier the reconcile
\* creates no Snapshot, leaves lastSnapshotTime as it was, and writes
\* nextSnapshotTime = cron.Next(lastSnapshotTime) under the cron expression
\* the Schedule has now, phase Active and no error.
C21_FireIffDueRecomputed ==
  (Decided /\ last.cached.lastSnapshotTime # NULL) =>
    /\ IssuedCreates <=> last.now >= DueAt
    /\ last.fired <=> last.now >= DueAt
    /\ last.now < DueAt =>
         /\ last.created = {}
         /\ last.branch = "active"
         /\ last.candidate.lastSnapshotTime = last.cached.lastSnapshotTime
         /\ last.candidate.nextSnapshotTime = DueAt
         /\ last.candidate.phase = SchedulePhaseActive
         /\ last.candidate.error = NoError

\* C21 witness: a reconcile of a Schedule that fired before reaches the fire
\* decision one second before cron.Next(lastSnapshotTime) and does not fire.
C21_Witness ==
  /\ Decided
  /\ last.cached.lastSnapshotTime # NULL
  /\ last.now + 1 = DueAt
  /\ ~IssuedCreates
  /\ last.write = "patched"

\* The last reconcile was handed a Schedule whose cron expression does not
\* parse.
BadCron == Ran /\ ~cronParse(last.spec.schedule).ok

\* C22: a reconcile of a Schedule with an unparsable cron expression, whose
\* status write the server does not reject, leaves phase Failed with the
\* parse error in status.error, looks up no VM, creates and deletes no
\* Snapshot, and returns the parse error with a zero requeue delay, whatever
\* disabled, source and vmSelector are.
C22_BadCronFails ==
  (BadCron /\ last.write # "failed") =>
    /\ last.branch = "cron"
    /\ last.vms = {} /\ ~IssuedCreates /\ last.selected = {}
    /\ last.err = "invalid cron expression" /\ last.requeueAfter = 0
    /\ last.candidate.phase = SchedulePhaseFailed
    /\ last.candidate.error.message = "invalid cron expression"
    /\ Stored.phase = SchedulePhaseFailed
    /\ Stored.error.message = "invalid cron expression"

\* C22 without the stored status: what the reconcile does and returns.
C22_BadCronReturns ==
  (BadCron /\ last.write # "failed") =>
    /\ last.branch = "cron"
    /\ last.vms = {} /\ ~IssuedCreates /\ last.selected = {}
    /\ last.err = "invalid cron expression" /\ last.requeueAfter = 0
    /\ last.candidate.phase = SchedulePhaseFailed
    /\ last.candidate.error.message = "invalid cron expression"

\* C23: a reconcile of a Schedule with an unparsable cron expression that
\* wrote the Failed status recorded one InvalidCronExpression event on the
\* Schedule.
C23_InvalidCronEvent ==
  (BadCron /\ last.write = "patched") =>
    /\ last.events[scheduleInvalidCronEvent] = 1
    /\ last.events[scheduleFailedEvent] = 0

\* What the parse-error path records: one ScheduledSnapshotFailed event
\* whenever the status write did not fail, and no other event.
C23_FailedEventInstead ==
  (BadCron /\ last.write # "failed") =>
    last.events = AddEvents(NoEvents, scheduleFailedEvent, 1)

\* The last reconcile ran under failurePolicy=Pause and the server rejected
\* at least one of its Snapshot creates.
PauseCreateFailure ==
  /\ Ran
  /\ last.spec.failurePolicy = ScheduleFailurePolicyPause
  /\ last.createFailed # {}

\* The errors createScheduledSnapshots may return for the creates the last
\* reconcile saw rejected.
CreateErrors == {createErrorMessage(order) : order \in Perms(last.createFailed)}

\* What a reconcile under failurePolicy=Pause with a rejected create does
\* and returns when the status write is not rejected: the candidate status
\* is Failed with the accumulated create errors, that error is returned,
\* lastSnapshotTime is not advanced, retention does not run and the spec is
\* left alone.
C24_PauseReturns ==
  (PauseCreateFailure /\ last.write # "failed") =>
    /\ last.branch = "create"
    /\ last.candidate.phase = SchedulePhaseFailed
    /\ last.candidate.error.message \in CreateErrors
    /\ last.err = last.candidate.error.message /\ last.requeueAfter = 0
    /\ last.candidate.lastSnapshotTime = last.cached.lastSnapshotTime
    /\ last.listed = {} /\ last.selected = {}
    /\ TheSchedule.spec = last.spec

\* C24: under failurePolicy=Pause, a reconcile in which a Snapshot create is
\* rejected, and whose status write the server does not reject, ends with
\* the stored phase Failed and the stored status.error.message holding the
\* accumulated create errors, returns that error, does not advance
\* lastSnapshotTime, does not run retention and does not change
\* spec.disabled.
C24_PauseFailure ==
  /\ C24_PauseReturns
  /\ (PauseCreateFailure /\ last.write # "failed") =>
       /\ Stored.phase = SchedulePhaseFailed
       /\ Stored.error.message \in CreateErrors

\* The last reconcile attempted to fire under failurePolicy=Continue or no
\* failurePolicy.
ContinueFire ==
  /\ Ran
  /\ last.fired
  /\ last.spec.failurePolicy # ScheduleFailurePolicyPause

\* The retention pass of the last reconcile ran over the informer store:
\* with a retention policy it listed the Schedule's Snapshots of every
\* target VM, and under maxCount alone it left at most maxCount of them
\* unselected.
RetentionRan ==
  /\ last.branch = "active"
  /\ last.spec.retention.set =>
       /\ last.listed = UNION {getScheduledSnapshotsForVM(TheSchedule, vm, last.store) :
                                 vm \in last.vms}
       /\ last.selected \subseteq last.listed
       /\ (last.spec.retention.maxCount # NULL /\ last.spec.retention.expires = NULL) =>
            \A vm \in last.vms :
              Cardinality(getScheduledSnapshotsForVM(TheSchedule, vm, last.store)
                            \ last.selected) <= last.spec.retention.maxCount

\* C25 (as stated): under failurePolicy=Continue or unset, a reconcile that
\* attempted to fire sets lastSnapshotTime to now also when creates failed,
\* records a ScheduledSnapshotFailed event when one did, still runs
\* retention, and ends with phase Active and a nil error.
C25_ContinueAdvances ==
  ContinueFire =>
    /\ last.candidate.lastSnapshotTime = last.now
    /\ Stored.lastSnapshotTime = last.now
    /\ last.events[scheduleFailedEvent] = (IF last.createFailed # {} THEN 1 ELSE 0)
    /\ RetentionRan
    /\ Stored.phase = SchedulePhaseActive /\ Stored.error = NoError
    /\ last.err = ""

\* C25 (amended): the same reconcile builds a status with lastSnapshotTime =
\* now, phase Active and no error, records the ScheduledSnapshotFailed event
\* when a create failed and runs retention; the status is stored and the
\* error returned is nil when the status write is not rejected, and the
\* write error is returned when it is.
C25_ContinueAdvancesUnlessWriteFails ==
  ContinueFire =>
    /\ last.candidate.lastSnapshotTime = last.now
    /\ last.candidate.phase = SchedulePhaseActive /\ last.candidate.error = NoError
    /\ last.events[scheduleFailedEvent] = (IF last.createFailed # {} THEN 1 ELSE 0)
    /\ RetentionRan
    /\ last.write # "skipped"
    /\ last.write = "patched" =>
         /\ Stored = last.candidate
         /\ last.err = "" /\ last.requeueAfter >= 1
    /\ last.write = "failed" => (last.err # "" /\ last.requeueAfter = 0)

\* C25 witness: a reconcile without failurePolicy fired, its create was
\* rejected, retention deleted a Snapshot and the status was stored Active
\* with lastSnapshotTime = now.
C25_Witness ==
  /\ ContinueFire
  /\ last.createFailed # {}
  /\ last.selected # {} /\ last.deleteFailed = {}
  /\ last.write = "patched"
  /\ Stored.lastSnapshotTime = last.now
  /\ Stored.phase = SchedulePhaseActive

\* Reconcile l created Snapshots for some of its target VMs and saw the
\* create of another rejected, under failurePolicy=Pause.
PartialFire(l) ==
  /\ l.branch = "create"
  /\ l.created # {}
  /\ l.createFailed # {}

\* C26: the reconcile that follows a fire under failurePolicy=Pause in which
\* some target VMs got their Snapshot and the create of another was rejected,
\* and that reads the status that fire stored, creates no second Snapshot,
\* in the same cron minute, for a VM that got one in that fire.
C26_RecoversThroughAlreadyExists ==
  [][(PartialFire(last) /\ cachedSchedule = apiSchedule /\ last' # last) =>
       \A s \in last'.created :
         ~\E old \in last.created :
            /\ old.source = s.source
            /\ Minute(old.creationTimestamp) = Minute(s.creationTimestamp)]_vars

\* The recovery the code does provide: a following reconcile that fires in
\* the same second gets AlreadyExists for every VM that got its Snapshot and
\* creates none for it.
C26_RecoversInTheSameSecond ==
  [][(PartialFire(last) /\ last' # last /\ last'.now = last.now /\ last'.fired) =>
       /\ {s.source : s \in last.created} \subseteq last'.createExists
       /\ \A s \in last'.created : s.source \notin {old.source : old \in last.created}]_vars

\* C27: in a reconcile in which a Snapshot create returned AlreadyExists,
\* the VMs of those creates are not among the failed ones and not in the
\* error a failurePolicy=Pause reconcile stores, no Snapshot and no
\* ScheduledSnapshotCreated event is made for them, and when no other
\* create was rejected the reconcile records no ScheduledSnapshotFailed
\* event and builds a status with lastSnapshotTime = now, phase Active and
\* no error, which is the stored one once the status write went through.
C27_AlreadyExistsIsSuccess ==
  (Ran /\ last.createExists # {}) =>
    /\ last.fired
    /\ last.createExists \cap last.createFailed = {}
    /\ \A s \in last.created : s.source \notin last.createExists
    /\ last.events[scheduleCreateSnapshotEvent] = Cardinality(last.created)
    /\ Cardinality(last.created) + Cardinality(last.createExists)
         + Cardinality(last.createFailed) = Cardinality(last.vms)
    /\ last.branch = "create" => last.candidate.error.message \in CreateErrors
    /\ last.createFailed = {} =>
         /\ last.branch = "active"
         /\ last.events[scheduleFailedEvent] = 0
         /\ last.candidate.lastSnapshotTime = last.now
         /\ last.candidate.phase = SchedulePhaseActive
         /\ last.candidate.error = NoError
         /\ last.write = "patched" => (Stored = last.candidate /\ last.err = "")

\* C27 witness: a reconcile under failurePolicy=Pause got AlreadyExists for
\* one VM and created the Snapshot of the other; it stored phase Active and
\* lastSnapshotTime = now.
C27_Witness ==
  /\ Ran
  /\ last.spec.failurePolicy = ScheduleFailurePolicyPause
  /\ last.createExists # {} /\ last.created # {} /\ last.createFailed = {}
  /\ last.write = "patched"
  /\ Stored.phase = SchedulePhaseActive
  /\ Stored.lastSnapshotTime = last.now

\* C28: a run of the create loop attempts the create of every target VM once
\* (each VM is rejected, answered AlreadyExists or gets one stored Snapshot,
\* whichever other VMs were rejected), records one ScheduledSnapshotCreated
\* event per stored Snapshot, and returns nil when no create was rejected
\* and otherwise one error that joins one entry per rejected VM.
C28_OneCreatePerVM ==
  last.branch = "createAll" =>
    LET made == {s.source : s \in last.created}
    IN  /\ last.createFailed \cup last.createExists \cup made = last.vms
        /\ last.createFailed \cap last.createExists = {}
        /\ last.createFailed \cap made = {}
        /\ last.createExists \cap made = {}
        /\ Cardinality(last.created) = Cardinality(made)
        /\ \A s \in last.created :
             s \in snapshots /\ s.name = snapshotName(TheSchedule, s.source, last.now)
        /\ last.events = AddEvents(NoEvents, scheduleCreateSnapshotEvent,
                                   Cardinality(last.created))
        /\ (last.err = "") <=> (last.createFailed = {})
        /\ last.createFailed # {} => last.err \in CreateErrors

\* C28 witness: of the two VMs of the Schedule, the create of one was
\* rejected and the other got its Snapshot and its event.
C28_Witness ==
  /\ last.branch = "createAll"
  /\ Cardinality(last.vms) = 2
  /\ Cardinality(last.createFailed) = 1
  /\ Cardinality(last.created) = 1
  /\ last.events[scheduleCreateSnapshotEvent] = 1
  /\ last.err # ""

\* The last reconcile got past the cron parse and the pause check with a
\* Schedule that has both source and vmSelector / neither of them.
ReachedTargets == Ran /\ last.branch \notin {"cron", "paused"}
BothTargets == last.spec.source # NoSource /\ last.spec.vmSelector # ""
NoTargets == last.spec.source = NoSource /\ last.spec.vmSelector = ""

\* C29 (as stated): a reconcile of a Schedule with both or neither of
\* source and vmSelector set ends with phase Failed and the validation
\* error, and issues no Snapshot create.
C29_ExactlyOneTarget ==
  (ReachedTargets /\ (BothTargets \/ NoTargets)) =>
    /\ last.candidate.phase = SchedulePhaseFailed
    /\ last.candidate.error.message = "either source or vmSelector must be specified"
    /\ ~IssuedCreates

\* C29 (amended): with neither set the reconcile builds phase Failed with
\* the validation error, returns that error unless the status write is
\* rejected, and issues no create; with both set the source is used and the
\* vmSelector ignored: the only target is the source VM, no validation
\* error is raised, and the reconcile fires for that VM when it is due.
C29_SourceTakesPrecedence ==
  /\ (ReachedTargets /\ NoTargets) =>
       /\ last.branch = "vms"
       /\ last.candidate.phase = SchedulePhaseFailed
       /\ last.candidate.error.message = "either source or vmSelector must be specified"
       /\ last.write # "failed" => last.err = last.candidate.error.message
       /\ last.requeueAfter = 0
       /\ ~IssuedCreates /\ last.selected = {}
  /\ (ReachedTargets /\ BothTargets) =>
       /\ last.vms = {last.spec.source.name}
       /\ last.branch = "active"
       /\ last.candidate.phase = SchedulePhaseActive
       /\ last.candidate.error = NoError
       /\ last.fired =>
            /\ last.createFailed \cup last.createExists \cup {s.source : s \in last.created}
                 = {last.spec.source.name}
            /\ last.candidate.lastSnapshotTime = last.now

\* C29 witness: a reconcile of the Schedule with neither field ended Failed
\* with the validation error stored.
C29_Witness ==
  /\ ReachedTargets /\ NoTargets
  /\ last.write = "patched"
  /\ Stored.phase = SchedulePhaseFailed
  /\ Stored.error.message = "either source or vmSelector must be specified"
  /\ last.err = "either source or vmSelector must be specified"

\* The last reconcile got past the cron parse and the pause check with a
\* Schedule whose vmSelector matches no VM of its namespace in the VM
\* informer store.
NoMatch ==
  /\ ReachedTargets
  /\ last.spec.source = NoSource
  /\ last.spec.vmSelector # ""
  /\ ~\E vm \in vmCache :
        vm.namespace = TheSchedule.namespace /\ vm.app = last.spec.vmSelector

\* What every reconcile of a Schedule whose vmSelector matches no VM does:
\* it records the warning NoVMsMatchedSelector, creates and deletes nothing
\* (retention does not run), and builds a status with lastSnapshotTime as it
\* was, phase Active, no error and nextSnapshotTime recomputed from
\* lastSnapshotTime, or from now when the Schedule never fired.
NoMatchStatus ==
  /\ last.branch = "novms"
  /\ last.events = AddEvents(NoEvents, scheduleNoVMsMatchedEvent, 1)
  /\ ~IssuedCreates /\ last.listed = {} /\ last.selected = {}
  /\ last.candidate.lastSnapshotTime = last.cached.lastSnapshotTime
  /\ last.candidate.phase = SchedulePhaseActive
  /\ last.candidate.error = NoError
  /\ last.candidate.nextSnapshotTime =
       cronNext(cronParse(last.spec.schedule).period,
                IF last.cached.lastSnapshotTime # NULL
                THEN last.cached.lastSnapshotTime ELSE last.now)

\* C30 (as stated): such a reconcile is not an error; it does the above and
\* returns a requeue delay of at least one second with a nil error.
C30_NoMatchIsNotAnError ==
  NoMatch =>
    /\ NoMatchStatus
    /\ last.requeueAfter >= 1
    /\ last.err = ""

\* C30 (amended): such a reconcile does the above, and returns a requeue
\* delay of at least one second with a nil error when the status write is
\* not rejected, the write error with a zero delay when it is.
C30_NoMatchUnlessWriteFails ==
  NoMatch =>
    /\ NoMatchStatus
    /\ last.write # "failed" => (last.requeueAfter >= 1 /\ last.err = "")
    /\ last.write = "patched" => Stored = last.candidate
    /\ last.write = "failed" => (last.requeueAfter = 0 /\ last.err # "")

\* C30 witness: a Schedule left Failed whose vmSelector matches no VM is
\* reconciled after its Snapshot expired: the Snapshot is still on the
\* server, the stored status is Active without error, the delay is at least
\* one second.
C30_Witness ==
  /\ NoMatch
  /\ last.cached.phase = SchedulePhaseFailed
  /\ last.now >= 1
  /\ snapshots # {}
  /\ last.write = "patched"
  /\ Stored.phase = SchedulePhaseActive /\ Stored.error = NoError
  /\ last.requeueAfter >= 1 /\ last.err = ""

\* The cron instant after the lastSnapshotTime of the status the last
\* reconcile built, or after now when the Schedule never fired.
NextFromLast ==
  cronNext(cronParse(last.spec.schedule).period,
           IF last.candidate.lastSnapshotTime # NULL
           THEN last.candidate.lastSnapshotTime ELSE last.now)

\* C31 (as stated): a reconcile that ends Active returns a nil error and
\* requeueAfter = max(nextSnapshotTime - now + 1, 1) seconds, where
\* nextSnapshotTime is the cron instant after lastSnapshotTime, or after now
\* if the Schedule never fired; the delay is at least one second.
C31_RequeueAfterNextRun ==
  EndedActive =>
    /\ last.err = ""
    /\ last.candidate.nextSnapshotTime = NextFromLast
    /\ last.requeueAfter = Max(last.candidate.nextSnapshotTime - last.now + 1, 1)
    /\ last.requeueAfter >= 1

\* C31 (amended): the same holds of every reconcile that ends Active and
\* whose status write is not rejected; when the write is rejected the
\* reconcile returns the write error with a zero delay.
C31_RequeueUnlessWriteFails ==
  EndedActive =>
    /\ last.candidate.nextSnapshotTime = NextFromLast
    /\ last.write # "failed" =>
         /\ last.err = ""
         /\ last.requeueAfter = Max(last.candidate.nextSnapshotTime - last.now + 1, 1)
         /\ last.requeueAfter >= 1
    /\ last.write = "failed" => (last.err # "" /\ last.requeueAfter = 0)

\* C31 witness: a reconcile ended Active with a nextSnapshotTime that has
\* passed already, and returned the floor of one second.
C31_Witness ==
  /\ EndedActive
  /\ last.write # "failed"
  /\ last.candidate.nextSnapshotTime < last.now
  /\ last.requeueAfter = 1 /\ last.err = ""

\* The status writer ran with the Schedule in the informer store.
WriterRan == last.branch = "write" /\ last.write # "absent"

\* The candidate differs from the cached status in one of the five fields
\* statusEqual reads.
DiffersInComparedFields ==
  \/ last.candidate.phase # last.cached.phase
  \/ last.candidate.currentSnapshotCount # last.cached.currentSnapshotCount
  \/ last.candidate.lastSuccessfulSnapshotName # last.cached.lastSuccessfulSnapshotName
  \/ last.candidate.lastSnapshotTime # last.cached.lastSnapshotTime
  \/ last.candidate.nextSnapshotTime # last.cached.nextSnapshotTime

C32_PatchIffFiveFieldsDiffer ==
  WriterRan => ((last.write \in {"patched", "failed"}) <=> DiffersInComparedFields)

\* The server rejected a Snapshot delete of the last reconcile.
DeleteFailure == Ran /\ last.deleteFailed # {}

\* What a reconcile with a rejected delete does: the other selected
\* Snapshots are deleted (a Snapshot that is gone already counts as
\* deleted) with one ScheduledSnapshotDeleted event each, the rejected ones
\* stay, and the reconcile goes on to the Active status.
DeleteFailureGoesOn ==
  /\ last.branch = "active"
  /\ last.deleteFailed \subseteq last.selected
  /\ \A s \in last.selected \ last.deleteFailed :
       ~\E x \in snapshots : x.namespace = s.namespace /\ x.name = s.name
  /\ last.events[scheduleDeleteSnapshotEvent]
       = Cardinality(last.selected \ last.deleteFailed)
  /\ last.candidate.phase = SchedulePhaseActive
  /\ last.candidate.error = NoError

\* The next reconcile that runs retention selects again the Snapshots whose
\* delete was rejected and that the informer store still lists.
SelectedAgain ==
  [][(DeleteFailure /\ last' # last /\ last'.branch = "active")
       => (last.deleteFailed \cap snapshotCache) \subseteq last'.selected]_vars

Handled == last.branch = "snapshotEvent"

\* The Snapshot an event is about: the object added or deleted, the new
\* object of an update, the object a tombstone carries.
EventSnapshot ==
  IF last.event.obj.type = "DeletedFinalStateUnknown" THEN last.event.obj.obj
  ELSE last.event.obj

\* The event's Snapshot carries the schedule-name label.
CarriesScheduleName ==
  /\ EventSnapshot.type = "VirtualMachineSnapshot"
  /\ scheduleNameLabel \in DOMAIN EventSnapshot.labels

\* C34: an add, update or delete event of a Snapshot with the schedule-name
\* label, wrapped in a tombstone or not, adds exactly the key
\* "<snapshot namespace>/<label value>" to the queue; an event of a Snapshot
\* without that label adds nothing.
C34_EventEnqueuesScheduleKey ==
  Handled =>
    IF CarriesScheduleName
    THEN LET key == EventSnapshot.namespace \o "/" \o EventSnapshot.labels[scheduleNameLabel]
         IN  /\ last.adds = <<key>>
             /\ wq = queueAdd(last.before, key)
             /\ key \in wq.dirty
    ELSE /\ last.adds = <<>>
         /\ wq = last.before

\* C34 witness: the delete event of a Snapshot of ns2 labelled for Schedule
\* s2 arrived in a tombstone and its key was queued behind another one.
C34_Witness ==
  /\ Handled
  /\ last.event.kind = "delete"
  /\ last.event.obj.type = "DeletedFinalStateUnknown"
  /\ CarriesScheduleName
  /\ Len(last.before.queue) = 1
  /\ wq.queue = Append(last.before.queue, "ns2/s2")

C36_StoredErrorIsThisError ==
  (/\ Ran
   /\ last.candidate.phase = SchedulePhaseFailed
   /\ last.write # "failed")
  => Stored.error.message = last.candidate.error.message

\* C37: once the stored lastSnapshotTime is set, no reconcile's status
\* patch resets it to null, whatever copy of the Schedule the reconcile
\* read from the informer store.
C37_LastSnapshotTimeNeverUnset ==
  [][Stored.lastSnapshotTime # NULL => Stored'.lastSnapshotTime # NULL]_vars

\* C38: a Snapshot of the Schedule's namespace that bears the name the
\* create loop generates for one of its VMs in this second, and so answers
\* the create with AlreadyExists, is a Snapshot of the same Schedule and
\* the same VM: distinct (Schedule, VM) pairs get distinct names.
C38_NameIdentifiesScheduleAndVM ==
  last.branch = "createAll" =>
    \A vm \in last.vms : \A s \in snapshots :
      (s.namespace = cachedSchedule.namespace
         /\ s.name = snapshotName(cachedSchedule, vm, last.now))
      => (/\ LabelOf(s.labels, scheduleNameLabel) = cachedSchedule.name
          /\ LabelOf(s.labels, snapshotSourceNameLabel) = vm)

\* Snapshot s is in the Schedule's namespace, carries its name in the
\* schedule-name label and one of the VMs of vms in the source-name label.
InRetentionScope(s, sched, vms) ==
  /\ s.namespace = sched.namespace
  /\ scheduleNameLabel \in DOMAIN s.labels
  /\ s.labels[scheduleNameLabel] = sched.name
  /\ snapshotSourceNameLabel \in DOMAIN s.labels
  /\ s.labels[snapshotSourceNameLabel] \in vms

\* C39: a reconcile selects for deletion, and removes from the server, only
\* Snapshots of the Schedule's namespace that carry its name in the
\* schedule-name label and a VM resolved in this reconcile in the
\* source-name label; it selects none when spec.retention is unset.
C39_RetentionFrame ==
  /\ [](Ran => /\ \A s \in last.selected : InRetentionScope(s, cachedSchedule, last.vms)
               /\ ~last.spec.retention.set => last.selected = {})
  /\ [][\A s \in snapshots \ snapshots' :
          /\ last'.spec.retention.set
          /\ InRetentionScope(s, cachedSchedule, last'.vms)]_vars

\* C39 witness: a reconcile deleted the Schedule's expired Snapshot of vmA
\* and every foreign Snapshot is still on the server.
C39_Witness ==
  /\ Ran
  /\ OwnSnapshot \in last.selected
  /\ OwnSnapshot \notin snapshots
  /\ ForeignSnapshots \subseteq snapshots

====
